---- MODULE Spec2Model ----
(***************************************************************************)
(* Verification model of the gemini-mcp stdio JSON-RPC server:             *)
(* the dispatch loop of src/mcp/server.rs and the tool executors of        *)
(* src/tools/*.rs, with the Generation Service (src/gemini/client.rs) as   *)
(* an external collaborator whose outcome is nondeterministic.             *)
(***************************************************************************)
EXTENDS Integers, Sequences, FiniteSets, TLC

\* ------------------------------------------------------------------------
\* Bounds of the model
\* ------------------------------------------------------------------------
\* number of lines the input stream delivers before it can only end
MaxLines == 3

\* ------------------------------------------------------------------------
\* JSON values (serde_json::Value).  A field that is not present in an
\* object is Absent.  JStr is a string compared as a whole; JText is a
\* string whose characters matter: the characters c followed by pad further
\* non-blank bytes.
\* ------------------------------------------------------------------------
Absent == [t |-> "absent"]
JNull == [t |-> "null"]
JNum(n) == [t |-> "num", n |-> n]
JStr(s) == [t |-> "str", s |-> s]
JText(c, pad) == [t |-> "text", c |-> c, pad |-> pad]
JArr(a) == [t |-> "arr", a |-> a]
JObj(o) == [t |-> "obj", o |-> o]

IsString(v) == v.t \in {"str", "text"}

\* Option<T>
None == [t |-> "none"]
Some(v) == [t |-> "some", v |-> v]

\* Result<T, E>
Ok(v) == [ok |-> TRUE, v |-> v]
Err(kind, msg) == [ok |-> FALSE, kind |-> kind, msg |-> msg]

\* ------------------------------------------------------------------------
\* Text helpers (str::trim, str::is_empty, str::len)
\* ------------------------------------------------------------------------
IsWhite(ch) == ch \in {" ", "\t", "\n", "\r"}

RECURSIVE trim_start(_)
trim_start(c) ==
    IF c = <<>> THEN <<>>
    ELSE IF IsWhite(Head(c)) THEN trim_start(Tail(c))
    ELSE c

RECURSIVE trim_end(_)
trim_end(c) ==
    IF c = <<>> THEN <<>>
    ELSE IF IsWhite(c[Len(c)]) THEN trim_end(SubSeq(c, 1, Len(c) - 1))
    ELSE c

trim(c) == trim_end(trim_start(c))

\* text.trim().is_empty() for a JText: the pad bytes are never blank
TrimIsEmpty(txt) == txt.pad = 0 /\ trim(txt.c) = <<>>

\* text.len() for a JText
ByteLen(txt) == Len(txt.c) + txt.pad

\* ------------------------------------------------------------------------
\* JSON-RPC envelope (server.rs, JsonRpcRequest / JsonRpcResponse)
\* ------------------------------------------------------------------------
PARSE_ERROR == -32700
METHOD_NOT_FOUND == -32601
INVALID_PARAMS == -32602
INTERNAL_ERROR == -32603

\* serde_json::from_str::<JsonRpcRequest>(line): a raw (non-JSON) text or a
\* JSON document that is not an object fails; jsonrpc and method must be
\* strings, id must be present (any value, null included), params is an
\* Option (absent or null is None).
from_str_loose(line) ==
    IF line.kind # "json" THEN Err("parse", "expected value")
    ELSE IF line.doc.t # "obj" THEN Err("parse", "invalid type")
    ELSE LET o == line.doc.o IN
         IF ~IsString(o.jsonrpc) THEN Err("parse", "missing field jsonrpc")
         ELSE IF ~IsString(o.method) THEN Err("parse", "missing field method")
         ELSE Ok([jsonrpc |-> o.jsonrpc,
                  id |-> IF o.id = Absent THEN JNull ELSE o.id,
                  method |-> o.method.s,
                  params |-> IF o.params \in {Absent, JNull}
                             THEN None ELSE Some(o.params)])

from_str(line) ==
    IF line.kind # "json" THEN Err("parse", "expected value")
    ELSE IF line.doc.t # "obj" THEN Err("parse", "invalid type")
    ELSE LET o == line.doc.o IN
         IF ~IsString(o.jsonrpc) THEN Err("parse", "missing field jsonrpc")
         ELSE IF o.id = Absent THEN Err("parse", "missing field id")
         ELSE IF ~IsString(o.method) THEN Err("parse", "missing field method")
         ELSE Ok([jsonrpc |-> o.jsonrpc,
                  id |-> o.id,
                  method |-> o.method.s,
                  params |-> IF o.params \in {Absent, JNull}
                             THEN None ELSE Some(o.params)])

\* JsonRpcResponse::success
JsonRpcResponse_success_both(id, result) ==
    [jsonrpc |-> "2.0", id |-> id, result |-> Some(result),
     error |-> Some([code |-> 0, message |-> "ok"])]

JsonRpcResponse_success(id, result) ==
    [jsonrpc |-> "2.0", id |-> id, result |-> Some(result), error |-> None]

\* JsonRpcResponse::error; id is an Option, None becomes null
JsonRpcResponse_error_noid(code, message, id) ==
    [jsonrpc |-> "2.0", id |-> JNull, result |-> None,
     error |-> Some([code |-> code, message |-> message])]

JsonRpcResponse_error(code, message, id) ==
    [jsonrpc |-> "2.0",
     id |-> IF id = None THEN JNull ELSE id.v,
     result |-> None,
     error |-> Some([code |-> code, message |-> message])]

\* serde_json::to_string(&response): result and error are skipped when None
to_string(resp) ==
    [keys |-> {"jsonrpc", "id"}
              \cup (IF resp.result = None THEN {} ELSE {"result"})
              \cup (IF resp.error = None THEN {} ELSE {"error"}),
     id |-> resp.id,
     result |-> resp.result,
     error |-> resp.error]

\* ------------------------------------------------------------------------
\* Tool Registry (server.rs, list_tools): the ordered catalog of names
\* ------------------------------------------------------------------------
ToolNames ==
    << "gemini-query", "gemini-analyze-code", "gemini-analyze-text",
       "gemini-summarize", "gemini-brainstorm", "gemini-search-v2",
       "gemini-analyze-v2", "gemini-summarize-v2", "gemini-brainstorm-v2" >>

\* ------------------------------------------------------------------------
\* Argument decoding (serde_json::from_value into the typed inputs).
\* An arguments object is a record over ArgFields; a field the caller did
\* not send is Absent; fields a tool does not declare are ignored.
\* ------------------------------------------------------------------------
ArgFields ==
    {"prompt", "code", "text", "content", "query", "sources", "filters",
     "analyzer_type", "num_ideas", "claude_thoughts", "model",
     "temperature", "max_output_tokens", "length", "format", "detail_level",
     "params"}

NoArgs == [f \in ArgFields |-> Absent]

DecodeErr(msg) == Err("decode", msg)

\* a required String field
ReqString(o, f) ==
    IF o[f] = Absent THEN DecodeErr("missing field")
    ELSE IF ~IsString(o[f]) THEN DecodeErr("invalid type: expected a string")
    ELSE Ok(o[f])

\* an Option<String> field with #[serde(default)]
OptString(o, f) ==
    IF o[f] \in {Absent, JNull} THEN Ok(None)
    ELSE IF ~IsString(o[f]) THEN DecodeErr("invalid type: expected a string")
    ELSE Ok(Some(o[f]))

\* a u32 field with a default (every number of the model is below 2^32)
U32Default(o, f, dflt) ==
    IF o[f] = Absent THEN Ok(dflt)
    ELSE IF o[f].t # "num" THEN DecodeErr("invalid type: expected u32")
    ELSE IF o[f].n < 0 THEN DecodeErr("invalid value: expected u32")
    ELSE Ok(o[f].n)

\* the model names a caller can write, as characters
PRO == <<"p", "r", "o">>
FLASH == <<"f", "l", "a", "s", "h">>

\* types.rs: Option<ModelPreference>, #[serde(rename_all = "lowercase")]
OptModelPreference(o) ==
    IF o["model"] \in {Absent, JNull} THEN Ok(None)
    ELSE IF o["model"] = JText(PRO, 0) THEN Ok(Some("Pro"))
    ELSE IF o["model"] = JText(FLASH, 0) THEN Ok(Some("Flash"))
    ELSE DecodeErr("unknown variant, expected one of pro, flash")

\* an Option<f32> or Option<u32> field of a struct
OptNumber(v, unsigned) ==
    IF v \in {Absent, JNull} THEN Ok(None)
    ELSE IF v.t # "num" THEN DecodeErr("invalid type: expected a number")
    ELSE IF unsigned /\ v.n < 0 THEN DecodeErr("invalid value: expected u32")
    ELSE Ok(Some(v.n))

\* types.rs: Option<GenerationParams>; temperature is in tenths and top_p
\* in hundredths
GenerationParams(v) ==
    IF v \in {Absent, JNull} THEN Ok(None)
    ELSE IF v.t # "obj" THEN DecodeErr("invalid type: expected struct GenerationParams")
    ELSE LET temperature == OptNumber(v.o.temperature, FALSE)
             max_tokens == OptNumber(v.o.max_tokens, TRUE)
             top_p == OptNumber(v.o.top_p, FALSE)
             top_k == OptNumber(v.o.top_k, TRUE)
         IN IF ~temperature.ok THEN temperature
            ELSE IF ~max_tokens.ok THEN max_tokens
            ELSE IF ~top_p.ok THEN top_p
            ELSE IF ~top_k.ok THEN top_k
            ELSE Ok(Some([temperature |-> temperature.v,
                          max_tokens |-> max_tokens.v,
                          top_p |-> top_p.v, top_k |-> top_k.v]))

\* summarize.rs: SummaryLength, #[serde(rename_all = "snake_case")], with
\* default_length
SummaryLength(v) ==
    IF v = Absent THEN Ok("Medium")
    ELSE IF v = JStr("brief") THEN Ok("Brief")
    ELSE IF v = JStr("medium") THEN Ok("Medium")
    ELSE IF v = JStr("detailed") THEN Ok("Detailed")
    ELSE IF v.t = "str" THEN DecodeErr("unknown variant")
    ELSE DecodeErr("invalid type: expected a string")

\* summarize.rs: SummaryFormat, #[serde(rename_all = "snake_case")], with
\* default_format
SummaryFormat(v) ==
    IF v = Absent THEN Ok("Paragraph")
    ELSE IF v = JStr("paragraph") THEN Ok("Paragraph")
    ELSE IF v = JStr("bullet_points") THEN Ok("BulletPoints")
    ELSE IF v = JStr("executive") THEN Ok("Executive")
    ELSE IF v = JStr("key_points") THEN Ok("KeyPoints")
    ELSE IF v.t = "str" THEN DecodeErr("unknown variant")
    ELSE DecodeErr("invalid type: expected a string")

\* the first failure of a sequence of field decodings, or Ok
RECURSIVE FirstErr(_)
FirstErr(rs) ==
    IF rs = <<>> THEN Ok(TRUE)
    ELSE IF ~Head(rs).ok THEN Head(rs)
    ELSE FirstErr(Tail(rs))

\* query.rs: QueryInput
QueryInput(args) ==
    IF args.t # "obj" THEN DecodeErr("invalid type: expected struct QueryInput")
    ELSE LET o == args.o
             prompt == ReqString(o, "prompt")
             model == IF o["model"] = Absent THEN Ok(JText(PRO, 0))
                      ELSE IF ~IsString(o["model"])
                           THEN DecodeErr("invalid type: expected a string")
                      ELSE Ok(o["model"])
             temperature == OptNumber(o["temperature"], FALSE)
             max_output_tokens == OptNumber(o["max_output_tokens"], TRUE)
             e == FirstErr(<<prompt, model, temperature, max_output_tokens>>)
         IN IF ~e.ok THEN e
            ELSE Ok([prompt |-> prompt.v, model |-> model.v,
                     temperature |-> temperature.v,
                     max_output_tokens |-> max_output_tokens.v])

\* analyze.rs: AnalyzeCodeInput
AnalyzeCodeInput(args) ==
    IF args.t # "obj" THEN DecodeErr("invalid type: expected struct AnalyzeCodeInput")
    ELSE LET code == ReqString(args.o, "code")
         IN IF ~code.ok THEN code
            ELSE Ok([code |-> code.v, language |-> None, focus |-> "general"])

\* analyze.rs: AnalyzeTextInput
AnalyzeTextInput(args) ==
    IF args.t # "obj" THEN DecodeErr("invalid type: expected struct AnalyzeTextInput")
    ELSE LET text == ReqString(args.o, "text")
         IN IF ~text.ok THEN text
            ELSE Ok([text |-> text.v, focus |-> None])

\* summarize.rs: SummarizeInput
SummarizeInput(args) ==
    IF args.t # "obj" THEN DecodeErr("invalid type: expected struct SummarizeInput")
    ELSE LET o == args.o
             content == ReqString(o, "content")
             length == SummaryLength(o["length"])
             format == SummaryFormat(o["format"])
             model == OptModelPreference(o)
             params == GenerationParams(o["params"])
             e == FirstErr(<<content, length, format, model, params>>)
         IN IF ~e.ok THEN e
            ELSE Ok([content |-> content.v, length |-> length.v,
                     format |-> format.v, focus |-> None,
                     model |-> model.v, params |-> params.v])

\* brainstorm.rs: BrainstormInput
BrainstormInput(args) ==
    IF args.t # "obj" THEN DecodeErr("invalid type: expected struct BrainstormInput")
    ELSE LET o == args.o
             prompt == ReqString(o, "prompt")
             num_ideas == U32Default(o, "num_ideas", 10)
             model == OptModelPreference(o)
             params == GenerationParams(o["params"])
             claude_thoughts == OptString(o, "claude_thoughts")
             e == FirstErr(<<prompt, num_ideas, model, params, claude_thoughts>>)
         IN IF ~e.ok THEN e
            ELSE Ok([prompt |-> prompt.v, num_ideas |-> num_ideas.v,
                     constraints |-> None, extract_consensus |-> TRUE,
                     model |-> model.v, params |-> params.v,
                     claude_thoughts |-> claude_thoughts.v,
                     max_rounds |-> Some(3)])

\* query.rs: Source
Source(v) ==
    IF v.t # "obj" THEN DecodeErr("invalid type: expected struct Source")
    ELSE IF \E f \in {"id", "title", "content"} : v.o[f] = Absent
         THEN DecodeErr("missing field")
    ELSE IF \E f \in {"id", "title", "content"} : ~IsString(v.o[f])
         THEN DecodeErr("invalid type: expected a string")
    ELSE Ok([id |-> v.o.id, title |-> v.o.title, content |-> v.o.content])

\* query.rs: SearchFilters (all three fields are Options)
SearchFilters(v) ==
    IF v \in {Absent, JNull} THEN Ok(None)
    ELSE IF v.t # "obj" THEN DecodeErr("invalid type: expected struct SearchFilters")
    ELSE IF v.o.source_ids \in {Absent, JNull}
         THEN Ok(Some([source_ids |-> None, min_relevance |-> None,
                       max_results |-> None]))
    ELSE IF v.o.source_ids.t # "arr"
         THEN DecodeErr("invalid type: expected a sequence")
    ELSE Ok(Some([source_ids |-> Some(v.o.source_ids.a),
                  min_relevance |-> None, max_results |-> None]))

\* query.rs: SearchInput
SearchInput(args) ==
    IF args.t # "obj" THEN DecodeErr("invalid type: expected struct SearchInput")
    ELSE LET o == args.o
             query == ReqString(o, "query")
             sources ==
                 IF o["sources"] = Absent THEN DecodeErr("missing field")
                 ELSE IF o["sources"].t # "arr"
                      THEN DecodeErr("invalid type: expected a sequence")
                 ELSE LET each == [i \in DOMAIN o["sources"].a |->
                                       Source(o["sources"].a[i])]
                      IN IF ~FirstErr(each).ok THEN FirstErr(each)
                         ELSE Ok([i \in DOMAIN each |-> each[i].v])
             filters == SearchFilters(o["filters"])
             model == OptModelPreference(o)
             params == GenerationParams(o["params"])
             e == FirstErr(<<query, sources, filters, model, params>>)
         IN IF ~e.ok THEN e
            ELSE Ok([query |-> query.v, sources |-> sources.v,
                     filters |-> filters.v, ranking |-> "Relevance",
                     include_citations |-> TRUE, model |-> model.v,
                     params |-> params.v])

\* analyze.rs: AnalyzerType, #[serde(tag = "type", content = "params")]:
\* the unit variants need no params; the struct variants need a params
\* object (Code's language has a default, Comparison's compare_with none).
AnalyzerType(v) ==
    IF v.t # "obj" THEN DecodeErr("invalid type: expected adjacently tagged enum AnalyzerType")
    ELSE IF v.o.type = Absent THEN DecodeErr("missing field type")
    ELSE IF v.o.type \in {JStr("text"), JStr("document"), JStr("sentiment")}
         THEN Ok([type |-> v.o.type.s])
    ELSE IF v.o.type = JStr("code")
         THEN IF v.o.params = Absent THEN DecodeErr("missing field params")
              ELSE IF v.o.params.t # "obj" THEN DecodeErr("invalid type: expected struct variant")
              ELSE Ok([type |-> "code",
                       language |-> IF v.o.params.o.language \in {Absent, JNull}
                                    THEN None ELSE Some(v.o.params.o.language)])
    ELSE IF v.o.type = JStr("comparison")
         THEN IF v.o.params = Absent THEN DecodeErr("missing field params")
              ELSE IF v.o.params.t # "obj" THEN DecodeErr("invalid type: expected struct variant")
              ELSE IF v.o.params.o.compare_with = Absent
                   THEN DecodeErr("missing field compare_with")
              ELSE Ok([type |-> "comparison",
                       compare_with |-> v.o.params.o.compare_with])
    ELSE DecodeErr("unknown variant")

\* analyze.rs: AnalyzeInput
AnalyzeInput(args) ==
    IF args.t # "obj" THEN DecodeErr("invalid type: expected struct AnalyzeInput")
    ELSE LET o == args.o
             content == ReqString(o, "content")
             analyzer_type ==
                 IF o["analyzer_type"] = Absent THEN DecodeErr("missing field")
                 ELSE AnalyzerType(o["analyzer_type"])
             model == OptModelPreference(o)
             params == GenerationParams(o["params"])
             e == FirstErr(<<content, analyzer_type, model, params>>)
         IN IF ~e.ok THEN e
            ELSE Ok([content |-> content.v, analyzer_type |-> analyzer_type.v,
                     options |-> None, model |-> model.v, params |-> params.v])

\* ------------------------------------------------------------------------
\* Tool Descriptors (server.rs, list_tools): the input schema published
\* for each tool.  A property is declared by its JSON type and, when the
\* schema enumerates them, its allowed values (no enum: the empty set).
\* ------------------------------------------------------------------------
Prop(type, enum) == [type |-> type, enum |-> enum]

ModelEnum == {JText(PRO, 0), JText(FLASH, 0)}

\* the oneOf branches of analyzer_type: the type constant, the properties
\* of its params object and those of them that are required
AnalyzerTypeOneOf ==
    {[const |-> "text", params |-> {}, required |-> {}],
     [const |-> "code", params |-> {"language"}, required |-> {}],
     [const |-> "document", params |-> {}, required |-> {}],
     [const |-> "sentiment", params |-> {}, required |-> {}],
     [const |-> "comparison", params |-> {"compare_with"},
      required |-> {"compare_with"}]}

inputSchema(name) ==
    CASE name = "gemini-query" ->
           [properties |->
               [prompt |-> Prop("string", {}),
                model |-> Prop("string", ModelEnum),
                temperature |-> Prop("number", {}),
                max_output_tokens |-> Prop("integer", {})],
            required |-> {"prompt"}]
      [] name = "gemini-analyze-code" ->
           [properties |->
               [code |-> Prop("string", {}),
                language |-> Prop("string", {}),
                focus |-> Prop("string",
                               {JStr("general"), JStr("quality"),
                                JStr("security"), JStr("performance"),
                                JStr("bugs")})],
            required |-> {"code"}]
      [] name = "gemini-analyze-text" ->
           [properties |->
               [text |-> Prop("string", {}), focus |-> Prop("string", {})],
            required |-> {"text"}]
      [] name = "gemini-summarize" ->
           [properties |->
               [content |-> Prop("string", {}),
                detail_level |-> Prop("string",
                                      {JStr("brief"), JStr("moderate"),
                                       JStr("detailed")}),
                format |-> Prop("string",
                                {JStr("bullets"), JStr("paragraphs"),
                                 JStr("outline")})],
            required |-> {"content"}]
      [] name = "gemini-brainstorm" ->
           [properties |->
               [prompt |-> Prop("string", {}),
                claude_thoughts |-> Prop("string", {}),
                max_rounds |-> Prop("integer", {})],
            required |-> {"prompt", "claude_thoughts"}]
      [] name = "gemini-search-v2" ->
           [properties |->
               [query |-> Prop("string", {}),
                sources |-> Prop("array", {}),
                filters |-> Prop("object", {}),
                ranking |-> Prop("string",
                                 {JStr("relevance"), JStr("recency"),
                                  JStr("popularity")}),
                include_citations |-> Prop("boolean", {}),
                model |-> Prop("string", ModelEnum),
                params |-> Prop("object", {})],
            required |-> {"query", "sources"}]
      [] name = "gemini-analyze-v2" ->
           [properties |->
               [content |-> Prop("string", {}),
                analyzer_type |-> Prop("oneOf", {}),
                options |-> Prop("object", {}),
                model |-> Prop("string", ModelEnum),
                params |-> Prop("object", {})],
            required |-> {"content", "analyzer_type"}]
      [] name = "gemini-summarize-v2" ->
           [properties |->
               [content |-> Prop("string", {}),
                length |-> Prop("string",
                                {JStr("brief"), JStr("medium"),
                                 JStr("detailed")}),
                format |-> Prop("string",
                                {JStr("paragraph"), JStr("bullet_points"),
                                 JStr("executive"), JStr("key_points")}),
                focus |-> Prop("string", {}),
                model |-> Prop("string", ModelEnum),
                params |-> Prop("object", {})],
            required |-> {"content"}]
      [] name = "gemini-brainstorm-v2" ->
           [properties |->
               [prompt |-> Prop("string", {}),
                num_ideas |-> Prop("integer", {}),
                constraints |-> Prop("string", {}),
                extract_consensus |-> Prop("boolean", {}),
                model |-> Prop("string", ModelEnum),
                params |-> Prop("object", {})],
            required |-> {"prompt"}]

\* list_tools with the last descriptor carrying the name of the fifth
list_tools_dup(id) ==
    JsonRpcResponse_success(id,
        [tools |-> [i \in DOMAIN ToolNames |->
                       [name |-> IF i = Len(ToolNames)
                                 THEN ToolNames[5] ELSE ToolNames[i],
                        inputSchema |-> inputSchema(ToolNames[i])]]])

\* list_tools: the catalog, one descriptor per tool in the fixed order
list_tools(id) ==
    JsonRpcResponse_success(id,
        [tools |-> [i \in DOMAIN ToolNames |->
                       [name |-> ToolNames[i],
                        inputSchema |-> inputSchema(ToolNames[i])]]])

\* ------------------------------------------------------------------------
\* Tool executors.  An executor is the sequence of its effectful steps in
\* program order: a failed decoding, an input validation (bail!), a
\* Generation Service call (generate_content(..).await?), a check of the
\* reply, the construction of the result, a conversion of the result.
\* ------------------------------------------------------------------------
Fail(e) == [op |-> "fail", e |-> e]
Validate(ok, msg) == [op |-> "validate", ok |-> ok, msg |-> msg]
Generate(model, config) == [op |-> "generate", model |-> model, config |-> config]
CheckReply(msg) == [op |-> "check_reply", msg |-> msg]
Build(shape, model) == [op |-> "build", shape |-> shape, model |-> model]
Map(f) == [op |-> "map", f |-> f]

\* summarize.rs execute: the content size limit
MAX_CONTENT_LEN == 1000000

\* brainstorm.rs execute_v2: the largest idea count
MAX_IDEAS == 50

\* str::contains
Contains(hay, needle) ==
    \E i \in 1..(Len(hay) - Len(needle) + 1) :
        SubSeq(hay, i, i + Len(needle) - 1) = needle

\* models.rs: GeminiModel::from_str
GeminiModel_from_str(s) ==
    IF s.pad = 0 /\ Contains(s.c, FLASH) THEN "Flash" ELSE "Pro"

\* models.rs: GeminiModel::as_str
GeminiModel_as_str(m) ==
    IF m = "Pro" THEN "gemini-3-pro-preview" ELSE "gemini-3-flash-preview"

\* gemini/types.rs: GenerationConfig; temperatures are in tenths
GenerationConfig(temperature, max_output_tokens, top_p, top_k) ==
    [temperature |-> temperature, max_output_tokens |-> max_output_tokens,
     top_p |-> top_p, top_k |-> top_k]

\* Option::and_then over Option<GenerationParams>
ParamOf(params, f) == IF params = None THEN None ELSE params.v[f]

\* Option::or
OrSome(opt, dflt) == IF opt = None THEN Some(dflt) ELSE opt

\* query.rs: execute (legacy gemini-query)
query_execute(input) ==
    << Generate(GeminiModel_from_str(input.model),
                IF input.temperature # None \/ input.max_output_tokens # None
                THEN Some(GenerationConfig(input.temperature,
                                           input.max_output_tokens, None, None))
                ELSE None),
       CheckReply("Empty response from Gemini API"),
       Build("QueryOutput", None) >>

\* analyze.rs: execute_code (legacy gemini-analyze-code)
analyze_execute_code(input) ==
    << Generate("Pro", None), Build("AnalyzeOutput", None) >>

\* analyze.rs: execute_text (legacy gemini-analyze-text)
analyze_execute_text(input) ==
    << Generate("Pro", None), Build("AnalyzeOutput", None) >>

\* summarize.rs: execute_v2
summarize_execute_v2(input) ==
    LET model == IF input.model = Some("Pro") THEN "Pro" ELSE "Flash"
        max_tokens == CASE input.length = "Brief" -> 256
                         [] input.length = "Detailed" -> 2048
                         [] OTHER -> 1024
        config == GenerationConfig(
                      OrSome(ParamOf(input.params, "temperature"), 4),
                      OrSome(ParamOf(input.params, "max_tokens"), max_tokens),
                      ParamOf(input.params, "top_p"),
                      ParamOf(input.params, "top_k"))
    IN << Generate(model, Some(config)), Build("SummaryResult", Some(model)) >>

\* summarize.rs: execute (legacy gemini-summarize)
summarize_execute(input) ==
    << Validate(~TrimIsEmpty(input.content), "Content cannot be empty"),
       Validate(~(ByteLen(input.content) > MAX_CONTENT_LEN),
                "Content too large (max 1M characters)") >>
    \o summarize_execute_v2(input)
    \o << Map("SummarizeOutput") >>

\* brainstorm.rs: execute_v2, with the validation after the call
brainstorm_execute_v2_late(input) ==
    LET model == IF input.model = Some("Flash") THEN "Flash" ELSE "Pro"
        config == GenerationConfig(
                      OrSome(ParamOf(input.params, "temperature"), 9),
                      OrSome(ParamOf(input.params, "max_tokens"), 2048),
                      ParamOf(input.params, "top_p"),
                      ParamOf(input.params, "top_k"))
    IN << Generate(model, Some(config)),
          Validate(~(input.num_ideas = 0 \/ input.num_ideas > MAX_IDEAS),
                   "num_ideas must be between 1 and 50"),
          Validate(~TrimIsEmpty(input.prompt), "Topic cannot be empty"),
          Build("BrainstormResult", Some(model)) >>

\* brainstorm.rs: execute_v2
brainstorm_execute_v2(input) ==
    LET model == IF input.model = Some("Flash") THEN "Flash" ELSE "Pro"
        config == GenerationConfig(
                      OrSome(ParamOf(input.params, "temperature"), 9),
                      OrSome(ParamOf(input.params, "max_tokens"), 2048),
                      ParamOf(input.params, "top_p"),
                      ParamOf(input.params, "top_k"))
    IN << Validate(~(input.num_ideas = 0 \/ input.num_ideas > MAX_IDEAS),
                   "num_ideas must be between 1 and 50"),
          Validate(~TrimIsEmpty(input.prompt), "Topic cannot be empty"),
          Generate(model, Some(config)),
          Build("BrainstormResult", Some(model)) >>

\* a legacy brainstorm of two rounds, each with its own call
brainstorm_execute_legacy_rounds(input) ==
    << Generate("Pro", None), Generate("Pro", None),
       Build("BrainstormOutput", None) >>

\* brainstorm.rs: execute_legacy
brainstorm_execute_legacy(input) ==
    << Generate("Pro", None), Build("BrainstormOutput", None) >>

\* brainstorm.rs: execute (legacy gemini-brainstorm)
brainstorm_execute(input) ==
    IF input.claude_thoughts # None
    THEN brainstorm_execute_legacy(input)
    ELSE brainstorm_execute_v2(input) \o << Map("BrainstormOutput") >>

\* query.rs: execute_v2, the sources left by the source_ids filter
filtered_sources(input) ==
    IF input.filters # None /\ input.filters.v.source_ids # None
    THEN SelectSeq(input.sources,
                   LAMBDA s : \E i \in DOMAIN input.filters.v.source_ids.v :
                                  input.filters.v.source_ids.v[i] = s.id)
    ELSE input.sources

\* query.rs: execute_v2 (gemini-search-v2)
query_execute_v2(input) ==
    LET model == IF input.model = Some("Flash") THEN "Flash" ELSE "Pro"
        config == GenerationConfig(
                      OrSome(ParamOf(input.params, "temperature"), 3),
                      OrSome(ParamOf(input.params, "max_tokens"), 2048),
                      ParamOf(input.params, "top_p"),
                      ParamOf(input.params, "top_k"))
    IN << Validate(~TrimIsEmpty(input.query), "Query cannot be empty"),
          Validate(input.sources # <<>>, "At least one source is required"),
          Validate(filtered_sources(input) # <<>>,
                   "No sources match the filter criteria"),
          Generate(model, Some(config)),
          Build("SearchResult", Some(model)) >>

\* analyze.rs: execute_v2 (gemini-analyze-v2); each of the five analyzers
\* issues one generate_content(prompt, model, None)
analyze_execute_v2(input) ==
    LET model == IF input.model = Some("Flash") THEN "Flash" ELSE "Pro"
    IN << Validate(~TrimIsEmpty(input.content), "Content cannot be empty"),
          Generate(model, None),
          Build("AnalyzeResult", Some(model)) >>

\* server.rs: execute_query .. execute_brainstorm_v2: decode, run, convert
execute_query(args) ==
    LET d == QueryInput(args)
    IN IF ~d.ok THEN << Fail(d) >>
       ELSE query_execute(d.v) \o << Map("output.text") >>

execute_analyze_code(args) ==
    LET d == AnalyzeCodeInput(args)
    IN IF ~d.ok THEN << Fail(d) >>
       ELSE analyze_execute_code(d.v) \o << Map("output.analysis") >>

execute_analyze_text(args) ==
    LET d == AnalyzeTextInput(args)
    IN IF ~d.ok THEN << Fail(d) >>
       ELSE analyze_execute_text(d.v) \o << Map("output.analysis") >>

execute_summarize(args) ==
    LET d == SummarizeInput(args)
    IN IF ~d.ok THEN << Fail(d) >>
       ELSE summarize_execute(d.v) \o << Map("output.summary") >>

execute_brainstorm(args) ==
    LET d == BrainstormInput(args)
    IN IF ~d.ok THEN << Fail(d) >>
       ELSE brainstorm_execute(d.v) \o << Map("format") >>

execute_search_v2(args) ==
    LET d == SearchInput(args)
    IN IF ~d.ok THEN << Fail(d) >>
       ELSE query_execute_v2(d.v) \o << Map("to_value") >>

execute_analyze_v2(args) ==
    LET d == AnalyzeInput(args)
    IN IF ~d.ok THEN << Fail(d) >>
       ELSE analyze_execute_v2(d.v) \o << Map("to_value") >>

execute_summarize_v2(args) ==
    LET d == SummarizeInput(args)
    IN IF ~d.ok THEN << Fail(d) >>
       ELSE summarize_execute_v2(d.v) \o << Map("to_value") >>

execute_brainstorm_v2(args) ==
    LET d == BrainstormInput(args)
    IN IF ~d.ok THEN << Fail(d) >>
       ELSE brainstorm_execute_v2(d.v) \o << Map("to_value") >>

\* ------------------------------------------------------------------------
\* Running an executor up to its next Generation Service call
\* ------------------------------------------------------------------------
\* tools/types.rs: ResponseMetadata::with_usage
with_usage(model, usage) ==
    [model_used |-> model,
     prompt_tokens |-> usage.prompt_token_count,
     response_tokens |-> usage.candidates_token_count,
     total_tokens |-> usage.total_token_count]

\* the result an executor builds from the Generation Result gen
BuildPayload(step, gen) ==
    IF step.model = None
    THEN [shape |-> step.shape, text |-> gen.text]
    ELSE [shape |-> step.shape, result |-> gen.text,
          metadata |-> with_usage(GeminiModel_as_str(step.model.v), gen.usage)]

\* Runs the steps in order: stops with the executor's error, with its
\* value, or at a Generation Service call (the rest runs when it returns).
RECURSIVE Advance(_, _, _)
Advance(steps, acc, gen) ==
    IF steps = <<>> THEN [st |-> "ok", v |-> acc]
    ELSE LET s == Head(steps)
             rest == Tail(steps)
         IN CASE s.op = "fail" -> [st |-> "err", e |-> s.e]
              [] s.op = "validate" ->
                   IF s.ok THEN Advance(rest, acc, gen)
                   ELSE [st |-> "err", e |-> Err("validation", s.msg)]
              [] s.op = "generate" ->
                   [st |-> "call",
                    call |-> [model |-> s.model, config |-> s.config],
                    rest |-> rest, acc |-> acc]
              [] s.op = "check_reply" ->
                   IF TrimIsEmpty(gen.text)
                   THEN [st |-> "err", e |-> Err("backend", s.msg)]
                   ELSE Advance(rest, acc, gen)
              [] s.op = "build" -> Advance(rest, BuildPayload(s, gen), gen)
              [] s.op = "map" -> Advance(rest, [via |-> s.f, of |-> acc], gen)

\* ------------------------------------------------------------------------
\* Dispatch (server.rs: handle_request, call_tool)
\* ------------------------------------------------------------------------
Return(resp) == [st |-> "done", response |-> resp]
Run(id, tool, steps) == [st |-> "run", id |-> id, tool |-> tool, steps |-> steps]

V2Tools ==
    {"gemini-search-v2", "gemini-analyze-v2", "gemini-summarize-v2",
     "gemini-brainstorm-v2"}

\* call_tool, the Ok / Err arms of the nine branches with the message lost
call_tool_result_nomsg(id, tool_name, r) ==
    IF r.ok
    THEN JsonRpcResponse_success(id,
             [content |-> << [type |-> "text",
                              text |-> IF tool_name \in V2Tools
                                       THEN [to_string_pretty |-> r.v]
                                       ELSE r.v] >>])
    ELSE JsonRpcResponse_error(INTERNAL_ERROR, "Tool execution failed", Some(id))

\* call_tool, the Ok / Err arms of the nine branches and the final success
call_tool_result(id, tool_name, r) ==
    IF r.ok
    THEN JsonRpcResponse_success(id,
             [content |-> << [type |-> "text",
                              text |-> IF tool_name \in V2Tools
                                       THEN [to_string_pretty |-> r.v]
                                       ELSE r.v] >>])
    ELSE JsonRpcResponse_error(INTERNAL_ERROR, r.msg, Some(id))

\* call_tool: params.get("name").and_then(|v| v.as_str())
tool_name_of(p) ==
    LET name == IF p.t = "obj" THEN p.o.name ELSE Absent
    IN IF IsString(name) THEN Some(name.s) ELSE None

\* call_tool: absent arguments taken as null
arguments_of_null(p) ==
    IF p.o.arguments = Absent THEN JNull ELSE p.o.arguments

\* call_tool: params.get("arguments"), an empty object when absent
arguments_of(p) ==
    IF p.o.arguments = Absent THEN JObj(NoArgs) ELSE p.o.arguments

\* call_tool, up to the executor it selects
call_tool(id, params) ==
    IF params = None
    THEN Return(JsonRpcResponse_error(INVALID_PARAMS, "Invalid params", Some(id)))
    ELSE LET p == params.v
         IN IF tool_name_of(p) = None
            THEN Return(JsonRpcResponse_error(INVALID_PARAMS, "Missing tool name", Some(id)))
            ELSE LET tool_name == tool_name_of(p).v
                     arguments == arguments_of(p)
                 IN CASE tool_name = "gemini-query" ->
                           Run(id, tool_name, execute_query(arguments))
                      [] tool_name = "gemini-analyze-code" ->
                           Run(id, tool_name, execute_analyze_code(arguments))
                      [] tool_name = "gemini-analyze-text" ->
                           Run(id, tool_name, execute_analyze_text(arguments))
                      [] tool_name = "gemini-summarize" ->
                           Run(id, tool_name, execute_summarize(arguments))
                      [] tool_name = "gemini-brainstorm" ->
                           Run(id, tool_name, execute_brainstorm(arguments))
                      [] tool_name = "gemini-search-v2" ->
                           Run(id, tool_name, execute_search_v2(arguments))
                      [] tool_name = "gemini-analyze-v2" ->
                           Run(id, tool_name, execute_analyze_v2(arguments))
                      [] tool_name = "gemini-summarize-v2" ->
                           Run(id, tool_name, execute_summarize_v2(arguments))
                      [] tool_name = "gemini-brainstorm-v2" ->
                           Run(id, tool_name, execute_brainstorm_v2(arguments))
                      [] OTHER ->
                           Return(JsonRpcResponse_error(METHOD_NOT_FOUND,
                                                        "Tool not found", Some(id)))

\* the fixed result of initialize
InitializeResult ==
    [protocolVersion |-> "2024-11-05",
     capabilities |-> [tools |-> "{}"],
     serverInfo |-> [name |-> "Gemini MCP Server (Rust)",
                     version |-> "CARGO_PKG_VERSION"]]

\* handle_request with the default arm answering invalid params
handle_request_wrongcode(request) ==
    CASE request.method = "initialize" ->
           Return(JsonRpcResponse_success(request.id, InitializeResult))
      [] request.method = "tools/list" -> Return(list_tools(request.id))
      [] request.method = "tools/call" -> call_tool(request.id, request.params)
      [] OTHER -> Return(JsonRpcResponse_error(INVALID_PARAMS, "Method not found",
                                               Some(request.id)))

handle_request(request) ==
    CASE request.method = "initialize" ->
           Return(JsonRpcResponse_success(request.id, InitializeResult))
      [] request.method = "tools/list" -> Return(list_tools(request.id))
      [] request.method = "tools/call" -> call_tool(request.id, request.params)
      [] OTHER -> Return(JsonRpcResponse_error(METHOD_NOT_FOUND, "Method not found",
                                               Some(request.id)))

\* run: the Err arm of the match, leaving the loop
on_parse_error_break == [st |-> "break"]

\* run: the Err arm of the match on the decoded line
on_parse_error ==
    Return(JsonRpcResponse_error(PARSE_ERROR, "Parse error", None))

\* run: the match on serde_json::from_str::<JsonRpcRequest>(line)
run_match(l) ==
    LET d == from_str(l)
    IN IF d.ok THEN handle_request(d.v) ELSE on_parse_error

\* ------------------------------------------------------------------------
\* Inputs: the lines the transport can deliver
\* ------------------------------------------------------------------------
Ids == {JNull, JNum(7), JStr("req-1"), JArr(<<JNum(1), JStr("x")>>)}

\* texts that are not JSON: blank lines and garbage
RawLines ==
    {[kind |-> "raw", c |-> c] :
        c \in {<<"\n">>, <<" ", "\t", "\r", "\n">>, <<"x", "\n">>,
               <<" ", "x", " ", "\n">>}}

Envelope(jsonrpc, id, method, params) ==
    [kind |-> "json",
     doc |-> JObj([jsonrpc |-> jsonrpc, id |-> id, method |-> method,
                   params |-> params])]

Params(name, arguments) == JObj([name |-> name, arguments |-> arguments])

WithArgs(fs) == JObj([f \in ArgFields |-> IF f \in DOMAIN fs THEN fs[f] ELSE Absent])

\* JSON documents that are not request envelopes
BrokenLines ==
    {[kind |-> "json", doc |-> JNum(42)]}
    \cup {Envelope(Absent, id, JStr("initialize"), Absent) : id \in {JNum(7)}}
    \cup {Envelope(JStr("2.0"), Absent, JStr(m), Absent) :
              m \in {"initialize", "tools/list"}}
    \cup {Envelope(JStr("2.0"), Absent, JStr("tools/call"),
                   Params(JStr("gemini-query"),
                          WithArgs([prompt |-> JText(<<"a">>, 0)])))}
    \cup {Envelope(JStr("2.0"), id, m, Absent) :
              id \in {JNum(7), JStr("req-1")}, m \in {Absent, JNum(1), JNull}}

ContentVals ==
    {Absent, JNum(5), JText(<<>>, 0), JText(<<" ", "\t">>, 0),
     JText(<<"a">>, 0), JText(<<" ", "a", " ">>, 0),
     JText(<<"a">>, MAX_CONTENT_LEN)}

ShortContentVals ==
    {Absent, JText(<<>>, 0), JText(<<" ", "\n">>, 0), JText(<<"a">>, 0)}

ModelVals == {Absent, JText(FLASH, 0)}

Source1 ==
    JObj([id |-> JStr("s1"), title |-> JStr("Doc 1"),
          content |-> JText(<<"c">>, 0)])

AnalyzerTypeVals ==
    {Absent}
    \cup {JObj([type |-> JStr(t), params |-> Absent]) :
              t \in {"text", "document", "sentiment", "code", "comparison",
                     "bogus"}}
    \cup {JObj([type |-> JStr("code"),
                params |-> JObj([language |-> JStr("rust"),
                                 compare_with |-> Absent])]),
          JObj([type |-> JStr("comparison"),
                params |-> JObj([language |-> Absent,
                                 compare_with |-> JText(<<"b">>, 0)])]),
          JObj([type |-> JStr("comparison"),
                params |-> JObj([language |-> Absent,
                                 compare_with |-> Absent])])}

\* the arguments tried for each tool
ToolArgs(tool) ==
    CASE tool = "gemini-query" ->
           {WithArgs([prompt |-> c, model |-> m]) :
                c \in ContentVals, m \in ModelVals}
      [] tool = "gemini-analyze-code" ->
           {WithArgs([code |-> c]) : c \in ContentVals}
      [] tool = "gemini-analyze-text" ->
           {WithArgs([text |-> c]) : c \in ContentVals}
      [] tool \in {"gemini-summarize", "gemini-summarize-v2"} ->
           {WithArgs([content |-> c, model |-> m]) :
                c \in ContentVals, m \in ModelVals}
      [] tool \in {"gemini-brainstorm", "gemini-brainstorm-v2"} ->
           {WithArgs([prompt |-> c, num_ideas |-> n, claude_thoughts |-> ct]) :
                c \in ShortContentVals,
                n \in {Absent, JNum(-1), JNum(0), JNum(1), JNum(MAX_IDEAS),
                       JNum(MAX_IDEAS + 1)},
                ct \in {Absent, JNull, JText(<<"t">>, 0)}}
      [] tool = "gemini-search-v2" ->
           {WithArgs([query |-> c, sources |-> ss, filters |-> fl]) :
                c \in ShortContentVals,
                ss \in {Absent, JArr(<<>>), JArr(<<Source1>>)},
                fl \in {Absent,
                        JObj([source_ids |-> JArr(<<JStr("s1")>>)]),
                        JObj([source_ids |-> JArr(<<JStr("s9")>>)])}}
      [] tool = "gemini-analyze-v2" ->
           {WithArgs([content |-> c, analyzer_type |-> at]) :
                c \in ShortContentVals, at \in AnalyzerTypeVals}
      [] OTHER -> {WithArgs([prompt |-> JText(<<"a">>, 0)])}

\* a params object of generation parameters
ParamsObj(t, m, p, k) ==
    JObj([temperature |-> t, max_tokens |-> m, top_p |-> p, top_k |-> k])

ParamsVals ==
    {ParamsObj(JNum(7), JNum(512), JNum(95), JNum(40)),
     ParamsObj(Absent, JNum(512), Absent, Absent),
     ParamsObj(Absent, Absent, Absent, Absent),
     JStr("hot")}

\* further arguments: generation parameters, lengths, formats and models
MoreArgs(tool) ==
    LET a == JText(<<"a">>, 0)
    IN CASE tool = "gemini-query" ->
              {WithArgs([prompt |-> a, temperature |-> t, max_output_tokens |-> m]) :
                   t \in {Absent, JNum(7)}, m \in {Absent, JNum(512)}}
         [] tool \in {"gemini-summarize", "gemini-summarize-v2"} ->
              {WithArgs([content |-> a, length |-> l, params |-> ps]) :
                   l \in {Absent, JStr("brief"), JStr("medium"), JStr("detailed")},
                   ps \in {Absent} \cup ParamsVals}
              \cup {WithArgs([content |-> a, format |-> f]) :
                        f \in {JStr("paragraph"), JStr("bullet_points"),
                               JStr("executive"), JStr("key_points"),
                               JStr("bullets"), JStr("paragraphs"),
                               JStr("outline")}}
              \cup {WithArgs([content |-> a, detail_level |-> d]) :
                        d \in {JStr("brief"), JStr("moderate"), JStr("detailed")}}
              \cup {WithArgs([content |-> a, model |-> JText(PRO, 0)])}
         [] tool \in {"gemini-brainstorm", "gemini-brainstorm-v2"} ->
              {WithArgs([prompt |-> a, params |-> ps, model |-> m]) :
                   ps \in ParamsVals,
                   m \in {Absent, JText(PRO, 0), JText(FLASH, 0)}}
         [] tool = "gemini-search-v2" ->
              {WithArgs([query |-> a, sources |-> JArr(<<Source1>>),
                         params |-> ps, model |-> m]) :
                   ps \in ParamsVals, m \in {Absent, JText(FLASH, 0)}}
         [] tool = "gemini-analyze-v2" ->
              {WithArgs([content |-> a,
                         analyzer_type |-> JObj([type |-> JStr("text"),
                                                 params |-> Absent]),
                         params |-> ps, model |-> m]) :
                   ps \in ParamsVals, m \in {Absent, JText(FLASH, 0)}}
         [] OTHER -> {}

CallNames ==
    {ToolNames[i] : i \in DOMAIN ToolNames}
    \cup {"gemini-nothing", "Gemini-Query"}

\* the params of the tools/call requests tried
CallParams ==
    {Absent, JNull, JStr("gemini-query"),
     Params(Absent, Absent), Params(JNum(1), Absent), Params(JNull, Absent),
     Params(Absent, WithArgs([prompt |-> JText(<<"a">>, 0)]))}
    \cup {Params(JStr(n), a) : n \in CallNames, a \in {Absent, JNull}}
    \cup UNION {{Params(JStr(n), a) : a \in ToolArgs(n) \cup MoreArgs(n)} :
                    n \in CallNames}

RequestLines ==
    {Envelope(JStr("2.0"), id, JStr(m), Absent) :
         id \in Ids, m \in {"initialize", "tools/list", "resources/list"}}
    \cup {Envelope(JStr("2.0"), id, JStr("tools/call"), p) :
              id \in Ids, p \in CallParams}

Lines == RawLines \cup BrokenLines \cup RequestLines

\* the outcomes of a Generation Service call (client.rs, generate_content)
Usage(p, c, t) ==
    [prompt_token_count |-> p, candidates_token_count |-> c,
     total_token_count |-> t]

GenOutcomes ==
    {Ok([text |-> JText(<<"o", "k">>, 0), usage |-> Usage(3, 5, 8)]),
     Ok([text |-> JText(<<" ">>, 0), usage |-> Usage(0, 0, 0)]),
     Err("backend", "API error (500): overloaded")}

\* ------------------------------------------------------------------------
\* State of the dispatch loop (server.rs, run)
\* ------------------------------------------------------------------------
VARIABLES
    pc,             \* position in run: read, handle, await, write_body,
                    \* write_newline, flush, done (Ok) or failed (Err)
    nread,          \* lines the reader has delivered
    line,           \* the line being served (None between iterations)
    response,       \* the JsonRpcResponse of the iteration
    response_json,  \* its serialisation
    pending,        \* the executor suspended on generate_content(..).await
    calls,          \* Generation Service calls issued for this line
    failure,        \* the Err the tool executor returned for this line
    ran,            \* which handler and which executor ran for this line
    stdout,         \* what was written: one entry per response
    nreq,           \* non-empty lines delivered
    stop,           \* why the loop ended
    reply,          \* what generate_content returned for this line
    pure            \* a helper function under evaluation: its name, its
                    \* argument and its value (None while the server runs)

server_vars ==
    <<pc, nread, line, response, response_json, pending, calls, failure,
      ran, stdout, nreq, stop, reply>>

vars ==
    <<pc, nread, line, response, response_json, pending, calls, failure,
      ran, stdout, nreq, stop, reply, pure>>

NoneRan == [handler |-> "none", executor |-> "none"]

\* a line that is empty or holds only white space
BlankLine(l) == l.kind = "raw" /\ \A i \in DOMAIN l.c : IsWhite(l.c[i])

\* run: line.trim().is_empty(), taken as false for every line
is_empty_never(l) == FALSE

\* run: line.trim().is_empty()
is_empty(l) == l.kind = "raw" /\ trim(l.c) = <<>>

\* run before its first read_line: nothing read, nothing written
ServerIdle ==
    /\ pc = "read"
    /\ nread = 0
    /\ line = None
    /\ response = None
    /\ response_json = None
    /\ pending = None
    /\ calls = <<>>
    /\ failure = None
    /\ ran = NoneRan
    /\ stdout = <<>>
    /\ nreq = 0
    /\ stop = "none"
    /\ reply = None

Init ==
    /\ ServerIdle
    /\ pure = None

\* reader.read_line(..) delivers a line: Ok(n), n > 0
ReadLine ==
    /\ pc = "read"
    /\ nread < MaxLines
    /\ \E l \in Lines :
         /\ nread' = nread + 1
         /\ nreq' = IF BlankLine(l) THEN nreq ELSE nreq + 1
         /\ IF is_empty(l)
            THEN UNCHANGED <<pc, line>>
            ELSE /\ line' = Some(l)
                 /\ pc' = "handle"
    /\ UNCHANGED <<response, response_json, pending, calls, failure, ran,
                   stdout, stop, reply, pure>>

\* reader.read_line(..) returns Ok(0)
ReadEof ==
    /\ pc = "read"
    /\ pc' = "done"
    /\ stop' = "eof"
    /\ UNCHANGED <<nread, line, response, response_json, pending, calls,
                   failure, ran, stdout, nreq, reply, pure>>

\* reader.read_line(..) returns Err
ReadError ==
    /\ pc = "read"
    /\ pc' = "done"
    /\ stop' = "read_error"
    /\ UNCHANGED <<nread, line, response, response_json, pending, calls,
                   failure, ran, stdout, nreq, reply, pure>>

\* the response is ready: serialise it and go on to write it
Respond(resp) ==
    /\ response' = Some(resp)
    /\ response_json' = Some(to_string(resp))
    /\ pending' = None
    /\ pc' = "write_body"

\* the executor of tool ran as far as a: it finished, or it awaits a call
Continue(a, id, tool) ==
    CASE a.st = "call" ->
           /\ calls' = Append(calls, a.call)
           /\ pending' = Some([id |-> id, tool |-> tool, rest |-> a.rest,
                               acc |-> a.acc])
           /\ pc' = "await"
           /\ UNCHANGED <<response, response_json, failure>>
      [] a.st = "err" ->
           /\ failure' = Some(a.e)
           /\ Respond(call_tool_result(id, tool, a.e))
           /\ UNCHANGED calls
      [] a.st = "ok" ->
           /\ Respond(call_tool_result(id, tool, Ok(a.v)))
           /\ UNCHANGED <<calls, failure>>

\* run: decode the line and handle the request, up to the response or to
\* the executor's Generation Service call
HandleLine ==
    /\ pc = "handle"
    /\ LET d == from_str(line.v)
           h == run_match(line.v)
       IN /\ ran' = [handler |-> IF d.ok THEN d.v.method ELSE "none",
                     executor |-> IF h.st = "run" THEN h.tool ELSE "none"]
          /\ CASE h.st = "done" ->
                    /\ Respond(h.response)
                    /\ UNCHANGED <<calls, failure, stop>>
               [] h.st = "run" ->
                    /\ Continue(Advance(h.steps, None, None), h.id, h.tool)
                    /\ UNCHANGED stop
               [] h.st = "break" ->
                    /\ pc' = "done"
                    /\ stop' = "break"
                    /\ UNCHANGED <<response, response_json, pending, calls,
                                   failure>>
    /\ UNCHANGED <<nread, line, stdout, nreq, reply, pure>>

\* generate_content returns: the suspended executor goes on
ServiceReturns ==
    /\ pc = "await"
    /\ \E outcome \in GenOutcomes :
         /\ reply' = Some(outcome)
         /\ IF ~outcome.ok
            THEN /\ failure' = Some(outcome)
                 /\ Respond(call_tool_result(pending.v.id, pending.v.tool, outcome))
                 /\ UNCHANGED calls
            ELSE Continue(Advance(pending.v.rest, pending.v.acc, outcome.v),
                          pending.v.id, pending.v.tool)
    /\ UNCHANGED <<nread, line, ran, stdout, nreq, stop, pure>>

\* stdout.write_all(response_json.as_bytes())
WriteBody ==
    /\ pc = "write_body"
    /\ stdout' = Append(stdout, [answers |-> nreq,
                                 error |-> "error" \in response_json.v.keys,
                                 terminated |-> FALSE, flushed |-> FALSE])
    /\ pc' = "write_newline"
    /\ UNCHANGED <<nread, line, response, response_json, pending, calls,
                   failure, ran, nreq, stop, reply, pure>>

\* stdout.write_all(b"\n")
WriteNewline ==
    /\ pc = "write_newline"
    /\ stdout' = [stdout EXCEPT ![Len(stdout)].terminated = TRUE]
    /\ pc' = "flush"
    /\ UNCHANGED <<nread, line, response, response_json, pending, calls,
                   failure, ran, nreq, stop, reply, pure>>

\* stdout.flush(), then the next iteration with fresh locals
Flush ==
    /\ pc = "flush"
    /\ stdout' = [stdout EXCEPT ![Len(stdout)].flushed = TRUE]
    /\ pc' = "read"
    /\ line' = None
    /\ response' = None
    /\ response_json' = None
    /\ calls' = <<>>
    /\ failure' = None
    /\ ran' = NoneRan
    /\ reply' = None
    /\ UNCHANGED <<nread, pending, nreq, stop, pure>>

\* a write or the flush returns Err: run returns it
WriteError ==
    /\ pc \in {"write_body", "write_newline", "flush"}
    /\ pc' = "failed"
    /\ stop' = "write_error"
    /\ UNCHANGED <<nread, line, response, response_json, pending, calls,
                   failure, ran, stdout, nreq, reply, pure>>

Next ==
    \/ ReadLine
    \/ ReadEof
    \/ ReadError
    \/ HandleLine
    \/ ServiceReturns
    \/ WriteBody
    \/ WriteNewline
    \/ Flush
    \/ WriteError

Spec == Init /\ [][Next]_vars

\* ------------------------------------------------------------------------
\* Idea parsing (brainstorm.rs, parse_ideas).  A text is a sequence of
\* characters.
\* ------------------------------------------------------------------------
\* lines accepted in one reply text
MaxIdeaLines == 3

Digit == {"0", "1", "2", "3", "4", "5", "6", "7", "8", "9"}

\* the number of leading characters of c that are in the set cs
RECURSIVE LeadingIn(_, _)
LeadingIn(c, cs) ==
    IF c # <<>> /\ Head(c) \in cs THEN 1 + LeadingIn(Tail(c), cs) ELSE 0

Drop(c, n) == SubSeq(c, n + 1, Len(c))

\* str::lines: split at "\n", a final empty piece is not a line, and a
\* "\r" before the "\n" belongs to the terminator
RECURSIVE UntilNewline(_)
UntilNewline(text) ==
    IF text = <<>> \/ Head(text) = "\n" THEN 0
    ELSE 1 + UntilNewline(Tail(text))

RECURSIVE lines(_)
lines(text) ==
    IF text = <<>> THEN <<>>
    ELSE LET n == UntilNewline(text)
             raw == SubSeq(text, 1, n)
             l == IF n < Len(text) /\ raw # <<>> /\ raw[Len(raw)] = "\r"
                     THEN SubSeq(raw, 1, Len(raw) - 1)
                     ELSE raw
         IN <<l>> \o lines(Drop(text, n + 1))

\* \s of the regex crate, on the characters of the model
Space == {" ", "\t", "\n", "\r"}

\* line_regex.captures(line) for ^\s*(\d+)\.?\s*(.+)$ : group 2 of the
\* match, or None.  Each repetition is greedy and gives characters back, the
\* last one first, only as far as (.+) needs one character.
line_regex_captures(l) ==
    LET s1 == LeadingIn(l, Space)
        d == LeadingIn(Drop(l, s1), Digit)
        digits == SubSeq(l, s1 + 1, s1 + d)
        r == Drop(l, s1 + d)
        afterdot == IF r # <<>> /\ Head(r) = "." THEN Tail(r) ELSE r
        s2 == LeadingIn(afterdot, Space)
        t == Drop(afterdot, s2)
    IN IF d = 0 THEN None
       ELSE IF r = <<>>
            THEN (IF d >= 2 THEN Some(<<digits[d]>>) ELSE None)
       ELSE IF t # <<>> THEN Some(t)
       ELSE IF s2 > 0 THEN Some(<<afterdot[s2]>>)
       ELSE Some(<<".">>)

\* parse_ideas: last.text.push(' '); last.text.push_str(line.trim()),
\* pushing the line as it is
push_continuation_raw(ideas, l) ==
    [ideas EXCEPT ![Len(ideas)].text = @ \o <<" ">> \o l]

\* parse_ideas: last.text.push(' '); last.text.push_str(line.trim())
push_continuation(ideas, l) ==
    [ideas EXCEPT ![Len(ideas)].text = @ \o <<" ">> \o trim(l)]

\* parse_ideas: the loop over the lines, from the ideas and the id so far
RECURSIVE parse_ideas_from(_, _, _)
parse_ideas_from(ls, ideas, id) ==
    IF ls = <<>> THEN ideas
    ELSE LET l == Head(ls)
             captures == line_regex_captures(l)
         IN IF captures # None
            THEN parse_ideas_from(Tail(ls),
                     Append(ideas, [id |-> id, text |-> trim(captures.v)]),
                     id + 1)
            ELSE IF trim(l) # <<>> /\ ideas # <<>>
                 THEN parse_ideas_from(Tail(ls), push_continuation(ideas, l), id)
            ELSE parse_ideas_from(Tail(ls), ideas, id)

\* parse_ideas with the first id 0
parse_ideas_zero(text) == parse_ideas_from(lines(text), <<>>, 0)

\* brainstorm.rs: parse_ideas
parse_ideas(text) == parse_ideas_from(lines(text), <<>>, 1)

\* the decimal digits of a number, as the Generation Service writes them
RECURSIVE Decimal(_)
Decimal(n) ==
    LET ch == <<"0", "1", "2", "3", "4", "5", "6", "7", "8", "9">>[(n % 10) + 1]
    IN IF n < 10 THEN <<ch>> ELSE Decimal(n \div 10) \o <<ch>>

\* the lines joined by "\n"
RECURSIVE Join(_)
Join(ls) ==
    IF ls = <<>> THEN <<>>
    ELSE IF Len(ls) = 1 THEN ls[1]
    ELSE ls[1] \o <<"\n">> \o Join(Tail(ls))

\* the lines a reply text is made of
IdeaLineVals ==
    { <<"1", ".", " ", "a">>, <<"2", ".", " ", "b", " ", "c">>,
      <<"7", " ", "d">>, <<" ", "3", ".", " ", " ", "e", " ">>,
      <<"1", "0">>, <<"1">>, <<"4", ".">>,
      <<"a", " ", "b">>, <<" ", "c", " ">>, <<"-", " ", "x">>,
      <<>>, <<" ">> }

\* the sequences of at most n lines
RECURSIVE LineSeqs(_)
LineSeqs(n) ==
    IF n = 0 THEN {<<>>}
    ELSE LET shorter == LineSeqs(n - 1)
         IN shorter \cup {Append(ls, l) : ls \in shorter, l \in IdeaLineVals}

\* the numbered list of n ideas the prompt of execute_v2 asks for
NumberedList(n) == [i \in 1..n |-> Decimal(i) \o <<".", " ", "a">>]

\* the reply texts tried
IdeaTexts ==
    {Join(ls) : ls \in LineSeqs(MaxIdeaLines)}
    \cup {Join(NumberedList(n)) : n \in 1..MAX_IDEAS}

IdeasInit ==
    /\ ServerIdle
    /\ pure \in {[f |-> "parse_ideas", arg |-> t, ret |-> None] : t \in IdeaTexts}

\* execute_v2: let ideas = parse_ideas(&response.text)
ParseIdeas ==
    /\ pure.f = "parse_ideas"
    /\ pure.ret = None
    /\ pure' = [pure EXCEPT !.ret = Some(parse_ideas(pure.arg))]
    /\ UNCHANGED server_vars

IdeasNext == ParseIdeas

SpecIdeas == IdeasInit /\ [][IdeasNext]_vars

\* ------------------------------------------------------------------------
\* Consensus themes (brainstorm.rs, extract_consensus_themes) and key
\* topics (summarize.rs, extract_key_topics)
\* ------------------------------------------------------------------------
\* ideas in a list of freely chosen idea texts
MaxThemeIdeas == 3

\* words in a summary text
MaxTopicWords == 3

\* the characters of a string literal
Chars(str) == [i \in 1..Len(str) |-> SubSeq(str, i, i)]

UPPER == Chars("ABCDEFGHIJKLMNOPQRSTUVWXYZ")
LOWER == Chars("abcdefghijklmnopqrstuvwxyz")

Alphabetic == {UPPER[i] : i \in DOMAIN UPPER} \cup {LOWER[i] : i \in DOMAIN LOWER}

\* \w of the regex crate, on the characters of the model
WordChar == Alphabetic \cup Digit \cup {"_"}

\* str::to_lowercase
to_lowercase(c) ==
    [i \in DOMAIN c |->
        IF \E k \in DOMAIN UPPER : UPPER[k] = c[i]
        THEN LOWER[CHOOSE k \in DOMAIN UPPER : UPPER[k] = c[i]]
        ELSE c[i]]

\* word_regex.captures_iter(text) for \b[a-zA-Z]{4,}\b : the maximal runs
\* of word characters that are letters only and at least four long
RECURSIVE word_regex_captures_iter(_)
word_regex_captures_iter(c) ==
    IF c = <<>> THEN <<>>
    ELSE IF Head(c) \notin WordChar THEN word_regex_captures_iter(Tail(c))
    ELSE LET n == LeadingIn(c, WordChar)
             run == SubSeq(c, 1, n)
         IN (IF n >= 4 /\ \A i \in DOMAIN run : run[i] \in Alphabetic
             THEN <<run>> ELSE <<>>)
            \o word_regex_captures_iter(Drop(c, n))

ElementsOf(seq) == {seq[i] : i \in DOMAIN seq}

\* the keywords of one idea (seen_in_idea)
keywords(idea) == ElementsOf(word_regex_captures_iter(to_lowercase(idea.text)))

\* keyword_to_ideas: the ids of the ideas a word occurs in, in idea order
keyword_to_ideas(ideas, word) ==
    LET holders == SelectSeq(ideas, LAMBDA idea : word \in keywords(idea))
    IN [i \in DOMAIN holders |-> holders[i].id]

\* the keys of keyword_to_ideas
keyword_keys(ideas) == UNION {keywords(ideas[i]) : i \in DOMAIN ideas}

\* extract_consensus_themes: stop_words
THEME_STOP_WORDS ==
    {Chars(w) : w \in
        {"that", "this", "with", "from", "have", "will", "would", "could",
         "should", "about", "which", "their", "there", "these", "those",
         "been", "being", "were", "when", "where", "while", "after", "before",
         "using", "make", "more", "into", "over", "such", "also", "some",
         "than", "them", "then", "very", "well", "only", "just", "even"}}

\* the f32 nearest to 0.3 is F32_0_3 / 2^25
F32_0_3 == 10066330

\* the unit in the last place of the f32 nearest to u / 2^25, in 2^-25
RECURSIVE f32_ulp(_)
f32_ulp(u) == IF u < 2^24 THEN 1 ELSE 2 * f32_ulp(u \div 2)

\* u / 2^25 rounded to f32 (to nearest, ties to even), in units of 2^-25
f32_round(u) ==
    LET ulp == f32_ulp(u)
        q == u \div ulp
        r == u % ulp
    IN IF 2 * r > ulp \/ (2 * r = ulp /\ q % 2 = 1)
       THEN (q + 1) * ulp ELSE q * ulp

\* (ideas.len() as f32 * 0.3).ceil() as usize
theme_threshold(len) == (f32_round(len * F32_0_3) + 2^25 - 1) \div 2^25

\* slice::sort_by(|a, b| b.1.cmp(&a.1)) on <<item, count>> pairs: stable,
\* larger counts first
RECURSIVE sort_by_desc(_)
sort_by_desc(seq) ==
    IF seq = <<>> THEN <<>>
    ELSE LET rest == sort_by_desc(SubSeq(seq, 1, Len(seq) - 1))
             x == seq[Len(seq)]
             keep == Cardinality({i \in DOMAIN rest : rest[i][2] >= x[2]})
         IN SubSeq(rest, 1, keep) \o <<x>> \o Drop(rest, keep)

\* Iterator::take
take(seq, n) == SubSeq(seq, 1, IF Len(seq) < n THEN Len(seq) ELSE n)

\* keys of a HashMap whose every iteration order is tried
MaxPermutedKeys == 4

\* every order of the keys
RECURSIVE AllOrders(_)
AllOrders(keys) ==
    IF keys = {} THEN {<<>>}
    ELSE UNION {{<<k>> \o rest : rest \in AllOrders(keys \ {k})} :
                   k \in keys}

\* one order of the keys
RECURSIVE OneOrder(_)
OneOrder(keys) ==
    IF keys = {} THEN <<>>
    ELSE LET k == CHOOSE k \in keys : TRUE
         IN <<k>> \o OneOrder(keys \ {k})

\* an order, each of its rotations, and the same read backwards
Rotations(order) ==
    LET n == Len(order)
        turned(r) == [i \in 1..n |-> order[((i + r - 1) % n) + 1]]
    IN UNION {{turned(r), [i \in 1..n |-> turned(r)[n + 1 - i]]} : r \in 0..(n - 1)}

\* the orders in which a HashMap with these keys can be iterated: any order
\* at all; for more than MaxPermutedKeys keys only the rotations of one
\* order and of its reverse are tried
IterationOrders(keys) ==
    IF Cardinality(keys) <= MaxPermutedKeys THEN AllOrders(keys)
    ELSE Rotations(OneOrder(keys))

\* themes.into_iter().take(10)
MAX_THEMES == 10

\* the themes cut to MAX_THEMES in the order of the iteration, then sorted
extract_consensus_themes_unsorted(ideas, iter) ==
    LET threshold == theme_threshold(Len(ideas))
        kept == SelectSeq(iter,
                    LAMBDA word :
                        /\ Len(keyword_to_ideas(ideas, word)) >= threshold
                        /\ word \notin THEME_STOP_WORDS)
        themes == [i \in DOMAIN kept |->
                      <<[theme |-> kept[i],
                         frequency |-> Len(keyword_to_ideas(ideas, kept[i])),
                         related_ideas |-> keyword_to_ideas(ideas, kept[i])],
                        Len(keyword_to_ideas(ideas, kept[i]))>>]
        sorted == sort_by_desc(take(themes, MAX_THEMES))
    IN [i \in DOMAIN sorted |-> sorted[i][1]]

\* brainstorm.rs: extract_consensus_themes; iter is the order in which
\* keyword_to_ideas.into_iter() yields the words
extract_consensus_themes(ideas, iter) ==
    LET threshold == theme_threshold(Len(ideas))
        kept == SelectSeq(iter,
                    LAMBDA word :
                        /\ Len(keyword_to_ideas(ideas, word)) >= threshold
                        /\ word \notin THEME_STOP_WORDS)
        themes == [i \in DOMAIN kept |->
                      <<[theme |-> kept[i],
                         frequency |-> Len(keyword_to_ideas(ideas, kept[i])),
                         related_ideas |-> keyword_to_ideas(ideas, kept[i])],
                        Len(keyword_to_ideas(ideas, kept[i]))>>]
        sorted == sort_by_desc(themes)
    IN take([i \in DOMAIN sorted |-> sorted[i][1]], MAX_THEMES)

RECURSIVE UntilSpace(_)
UntilSpace(c) ==
    IF c = <<>> \/ Head(c) \in Space THEN 0
    ELSE 1 + UntilSpace(Tail(c))

\* str::split_whitespace
RECURSIVE split_whitespace(_)
split_whitespace(c) ==
    IF c = <<>> THEN <<>>
    ELSE IF Head(c) \in Space THEN split_whitespace(Tail(c))
    ELSE LET n == UntilSpace(c)
         IN <<SubSeq(c, 1, n)>> \o split_whitespace(Drop(c, n))

\* str::trim_matches(|c| !c.is_alphabetic())
RECURSIVE trim_non_alphabetic(_)
trim_non_alphabetic(c) ==
    IF c = <<>> THEN <<>>
    ELSE IF Head(c) \notin Alphabetic THEN trim_non_alphabetic(Tail(c))
    ELSE IF c[Len(c)] \notin Alphabetic
         THEN trim_non_alphabetic(SubSeq(c, 1, Len(c) - 1))
    ELSE c

\* the words extract_key_topics counts, one entry per occurrence
counted_words(text) ==
    LET words == split_whitespace(text)
        clean == [i \in DOMAIN words |->
                     to_lowercase(trim_non_alphabetic(words[i]))]
    IN SelectSeq(clean, LAMBDA w : Len(w) >= 4)

\* word_counts[word]
word_count(text, word) ==
    Cardinality({i \in DOMAIN counted_words(text) :
                    counted_words(text)[i] = word})

\* extract_key_topics: stop_words
TOPIC_STOP_WORDS ==
    {Chars(w) : w \in
        {"that", "this", "with", "from", "have", "will", "would", "could",
         "should", "about", "which", "their", "there", "these", "those",
         "been", "being", "were", "when", "where", "while", "after",
         "before"}}

\* topics.into_iter().take(5)
MAX_TOPICS == 5

\* summarize.rs: extract_key_topics; iter is the order in which
\* word_counts.into_iter() yields the words
extract_key_topics(text, iter) ==
    LET kept == SelectSeq(iter,
                    LAMBDA word :
                        /\ word_count(text, word) >= 2
                        /\ word \notin TOPIC_STOP_WORDS)
        topics == [i \in DOMAIN kept |-> <<kept[i], word_count(text, kept[i])>>]
        sorted == sort_by_desc(topics)
    IN take([i \in DOMAIN sorted |-> sorted[i][1]], MAX_TOPICS)

\* the idea texts tried
ThemeTextVals ==
    {Chars("Data flow"), Chars("data, Make flow"), Chars("with data1 abc"),
     Chars("flow_x make DATA"), Chars("make with")}

\* lists of up to n ideas with these texts, numbered as parse_ideas does
RECURSIVE IdeaLists(_)
IdeaLists(n) ==
    IF n = 0 THEN {<<>>}
    ELSE LET shorter == IdeaLists(n - 1)
         IN shorter \cup
            {Append(ideas, [id |-> Len(ideas) + 1, text |-> t]) :
                ideas \in shorter, t \in ThemeTextVals}

\* n ideas of which the first k mention "cache"; every idea mentions the
\* stop word "with"
SharedToken(n, k) ==
    [i \in 1..n |->
        [id |-> i,
         text |-> IF i <= k THEN Chars("cache with") ELSE Chars("x with")]]

\* three ideas with twelve words between them: three in every idea, three
\* in two ideas, six in one; "alpha" twice in the second idea
ManyThemes ==
    << [id |-> 1, text |->
           Chars("alpha bravo charlie delta echo foxtrot golf hotel india juliet kilo lima")],
       [id |-> 2, text |-> Chars("alpha bravo charlie delta echo foxtrot alpha")],
       [id |-> 3, text |-> Chars("Alpha, bravo charlie")] >>

\* the idea lists tried
ThemeIdeas ==
    IdeaLists(MaxThemeIdeas)
    \cup {ManyThemes}
    \cup UNION {{SharedToken(n, k) : k \in 0..n} : n \in 1..MAX_IDEAS}

\* the words a summary text is made of
TopicWordVals ==
    {Chars("make"), Chars("Make,"), Chars("with"), Chars("data"),
     Chars("(more)"), Chars("x1"), Chars("it's")}

RECURSIVE WordSeqs(_)
WordSeqs(n) ==
    IF n = 0 THEN {<<>>}
    ELSE LET shorter == WordSeqs(n - 1)
         IN shorter \cup {Append(ws, w) : ws \in shorter, w \in TopicWordVals}

RECURSIVE JoinWords(_)
JoinWords(ws) ==
    IF ws = <<>> THEN <<>>
    ELSE IF Len(ws) = 1 THEN ws[1]
    ELSE ws[1] \o <<" ">> \o JoinWords(Tail(ws))

\* a summary with six words written twice and one of them three times
ManyTopics ==
    Chars("alpha bravo charlie delta echo foxtrot alpha bravo charlie delta echo foxtrot echo")

\* the summary texts tried
TopicTexts == {JoinWords(ws) : ws \in WordSeqs(MaxTopicWords)} \cup {ManyTopics}

ThemesInit ==
    /\ ServerIdle
    /\ pure \in
          {[f |-> "extract_consensus_themes", arg |-> ideas, ret |-> None] :
              ideas \in ThemeIdeas}
          \cup {[f |-> "extract_key_topics", arg |-> t, ret |-> None] :
                    t \in TopicTexts}

\* execute_v2 (brainstorm.rs): Some(extract_consensus_themes(&ideas))
ExtractConsensusThemes ==
    /\ pure.f = "extract_consensus_themes"
    /\ pure.ret = None
    /\ \E iter \in IterationOrders(keyword_keys(pure.arg)) :
          pure' = [pure EXCEPT
                      !.ret = Some(extract_consensus_themes(pure.arg, iter))]
    /\ UNCHANGED server_vars

\* execute_v2 (summarize.rs): let key_topics = extract_key_topics(&response.text)
ExtractKeyTopics ==
    /\ pure.f = "extract_key_topics"
    /\ pure.ret = None
    /\ \E iter \in IterationOrders(ElementsOf(counted_words(pure.arg))) :
          pure' = [pure EXCEPT
                      !.ret = Some(extract_key_topics(pure.arg, iter))]
    /\ UNCHANGED server_vars

ThemesNext == ExtractConsensusThemes \/ ExtractKeyTopics

SpecThemes == ThemesInit /\ [][ThemesNext]_vars

\* ------------------------------------------------------------------------
\* Score extraction (analyze.rs, extract_score)
\* ------------------------------------------------------------------------
\* pieces in a reply text
MaxScoreParts == 3

\* the span of \d+\.?\d* at the head of c, each repetition greedy; 0 when
\* c does not start with a digit
number_span(c) ==
    LET n1 == LeadingIn(c, Digit)
        dot == IF n1 < Len(c) /\ c[n1 + 1] = "." THEN 1 ELSE 0
        n2 == LeadingIn(Drop(c, n1 + dot), Digit)
    IN IF n1 = 0 THEN 0 ELSE n1 + dot + n2

\* c starts with the characters of prefix
starts_with(c, prefix) ==
    Len(c) >= Len(prefix) /\ SubSeq(c, 1, Len(prefix)) = prefix

\* (\d+\.?\d*)/10 matched at the head of c: group 1, or None.  A shorter
\* number is followed by a digit or a dot, never by "/", so giving
\* characters back finds no other match.
slash_ten_at(c) ==
    LET n == number_span(c)
    IN IF n > 0 /\ starts_with(Drop(c, n), Chars("/10"))
       THEN Some(SubSeq(c, 1, n)) ELSE None

\* score[:\s]+(\d+\.?\d*) matched at the head of c: group 2, or None
score_at(c) ==
    LET rest == Drop(c, 5)
        sep == LeadingIn(rest, {":"} \cup Space)
        n == number_span(Drop(rest, sep))
    IN IF starts_with(c, Chars("score")) /\ sep > 0 /\ n > 0
       THEN Some(SubSeq(rest, sep + 1, sep + n)) ELSE None

\* score_regex.captures(text), then cap.get(1).or_else(|| cap.get(2)): the
\* leftmost match, the first alternative tried first at each position
RECURSIVE score_regex_captures(_)
score_regex_captures(c) ==
    IF c = <<>> THEN None
    ELSE IF slash_ten_at(c) # None THEN slash_ten_at(c)
    ELSE IF score_at(c) # None THEN score_at(c)
    ELSE score_regex_captures(Tail(c))

digit_value(ch) ==
    CHOOSE v \in 0..9 : Chars("0123456789")[v + 1] = ch

\* the number a run of digits writes
RECURSIVE digits_value(_)
digits_value(c) ==
    IF c = <<>> THEN 0
    ELSE 10 * digits_value(SubSeq(c, 1, Len(c) - 1)) + digit_value(c[Len(c)])

\* the first three decimals a run of digits after the dot writes
decimals_value(c) ==
    digits_value(SubSeq(c \o <<"0", "0", "0">>, 1, 3))

\* str::parse::<f32> on digits, an optional dot and digits: the value in
\* thousandths (the texts tried write at most three decimals)
parse_f32(c) ==
    LET n1 == LeadingIn(c, Digit)
    IN 1000 * digits_value(SubSeq(c, 1, n1)) + decimals_value(Drop(c, n1 + 1))

\* analyze.rs: extract_score
extract_score(text) ==
    LET cap == score_regex_captures(text)
    IN IF cap = None THEN None ELSE Some(parse_f32(cap.v))

\* Option::unwrap_or
unwrap_or(opt, default) == IF opt = None THEN default ELSE opt.v

\* the defaults of the callers of extract_score, in thousandths:
\* 5.0 (analyze_code), 7.0 (analyze_document), 0.5 (analyze_sentiment)
ScoreDefaults == {5 * 1000, 7 * 1000, 1000 \div 2}

\* the pieces a reply text is made of
ScorePartVals ==
    {Chars("score: "), Chars("Score "), Chars("SCORE:"), Chars("score"),
     Chars("8"), Chars("8.5"), Chars("7.2"), Chars("/10"), Chars("x "),
     Chars(".")}

RECURSIVE ScoreTexts(_)
ScoreTexts(n) ==
    IF n = 0 THEN {<<>>}
    ELSE LET shorter == ScoreTexts(n - 1)
         IN shorter \cup {t \o part : t \in shorter, part \in ScorePartVals}

ScoreInit ==
    /\ ServerIdle
    /\ pure \in
          {[f |-> "extract_score", arg |-> [text |-> t, default |-> d],
            ret |-> None] :
              t \in ScoreTexts(MaxScoreParts), d \in ScoreDefaults}

\* analyze_code, analyze_document, analyze_sentiment:
\* extract_score(&response.text).unwrap_or(default)
ExtractScore ==
    /\ pure.f = "extract_score"
    /\ pure.ret = None
    /\ pure' = [pure EXCEPT
                   !.ret = Some(unwrap_or(extract_score(pure.arg.text),
                                          pure.arg.default))]
    /\ UNCHANGED server_vars

ScoreNext == ExtractScore

SpecScore == ScoreInit /\ [][ScoreNext]_vars

\* ------------------------------------------------------------------------
\* Search results and citations (query.rs, execute_v2 after the reply)
\* ------------------------------------------------------------------------
\* sources in a search
MaxSources == 2

\* str::contains
contains(haystack, needle) ==
    \E i \in 0..(Len(haystack) - Len(needle)) :
        SubSeq(haystack, i + 1, i + Len(needle)) = needle

\* the number of characters of c before the first ch (all when there is none)
RECURSIVE Until(_, _)
Until(c, ch) ==
    IF c = <<>> \/ Head(c) = ch THEN 0 ELSE 1 + Until(Tail(c), ch)

\* line.split(':').nth(1): the text between the first and the second ':'
split_colon_nth_1(l) ==
    LET first == Until(l, ":")
        rest == Drop(l, first + 1)
    IN IF first = Len(l) THEN None
       ELSE Some(SubSeq(rest, 1, Until(rest, ":")))

\* lines joined by " " (Vec::join)
RECURSIVE join_space(_)
join_space(ls) ==
    IF ls = <<>> THEN <<>>
    ELSE IF Len(ls) = 1 THEN ls[1]
    ELSE ls[1] \o <<" ">> \o join_space(Tail(ls))

\* query.rs: extract_answer
extract_answer(text) ==
    LET ls == lines(text)
        hits == SelectSeq(ls, LAMBDA l :
                    starts_with(to_lowercase(l), Chars("answer:")))
    IN IF hits # <<>>
       THEN trim(unwrap_or(split_colon_nth_1(hits[1]), <<>>))
       ELSE trim(join_space(take(ls, 3)))

\* text.split("\n\n")
RECURSIVE split_paragraphs(_)
split_paragraphs(c) ==
    LET blank(i) == i + 2 <= Len(c) /\ c[i + 1] = "\n" /\ c[i + 2] = "\n"
        cut == CHOOSE i \in 0..Len(c) :
                   /\ i = Len(c) \/ blank(i)
                   /\ \A j \in 0..(i - 1) : ~blank(j)
    IN IF cut = Len(c) THEN <<c>>
       ELSE <<SubSeq(c, 1, cut)>> \o split_paragraphs(Drop(c, cut + 2))

\* query.rs: extract_excerpt_for_source
extract_excerpt_for_source(text, source) ==
    LET paras == SelectSeq(split_paragraphs(text), LAMBDA para :
                     contains(to_lowercase(para), to_lowercase(source.title)))
    IN IF paras # <<>> THEN take(paras[1], 200)
       ELSE take(source.content, 100)

\* relevance_score: 0.7, in hundredths
DEFAULT_SCORE == 70

\* the test of extract_results: the title in any case, or the id as written
mentions(text, source) ==
    \/ contains(to_lowercase(text), to_lowercase(source.title))
    \/ contains(text, source.id)

\* query.rs: extract_results
extract_results(text, sources) ==
    LET hit == SelectSeq(sources, LAMBDA source : mentions(text, source))
    IN [i \in DOMAIN hit |->
           [source_id |-> hit[i].id,
            source_title |-> hit[i].title,
            excerpt |-> extract_excerpt_for_source(text, hit[i]),
            relevance_score |-> DEFAULT_SCORE]]

\* the least number of characters of a quote: "([^"]{20,})"
MIN_QUOTE_LEN == 20

\* quote_regex.captures_iter(text), group 1 of each match: a quote mark, at
\* least MIN_QUOTE_LEN characters other than the mark, a quote mark; the
\* search goes on after the closing mark of a match
RECURSIVE quote_regex_captures_iter(_)
quote_regex_captures_iter(c) ==
    IF c = <<>> THEN <<>>
    ELSE IF Head(c) # "\"" THEN quote_regex_captures_iter(Tail(c))
    ELSE LET n == Until(Tail(c), "\"")
         IN IF n >= MIN_QUOTE_LEN /\ n < Len(c) - 1
            THEN <<SubSeq(c, 2, n + 1)>>
                 \o quote_regex_captures_iter(Drop(c, n + 2))
            ELSE quote_regex_captures_iter(Tail(c))

\* the test of extract_citations: the quote as written, or in any case
quoted_in(source, quote) ==
    \/ contains(source.content, quote)
    \/ contains(to_lowercase(source.content), to_lowercase(quote))

\* the citations of one quote: one for every source that holds it
cite_every(quote, sources) ==
    LET holders == SelectSeq(sources, LAMBDA source : quoted_in(source, quote))
    IN [i \in DOMAIN holders |->
           [source_id |-> holders[i].id,
            source_title |-> holders[i].title,
            quote |-> quote]]

\* the citation of one quote: the loop over the sources up to its break
cite(quote, sources) ==
    LET holders == SelectSeq(sources, LAMBDA source : quoted_in(source, quote))
    IN IF holders = <<>> THEN <<>>
       ELSE << [source_id |-> holders[1].id,
                source_title |-> holders[1].title,
                quote |-> quote] >>

RECURSIVE concat(_)
concat(seqs) == IF seqs = <<>> THEN <<>> ELSE Head(seqs) \o concat(Tail(seqs))

\* query.rs: extract_citations
extract_citations(text, sources) ==
    LET quotes == quote_regex_captures_iter(text)
    IN concat([i \in DOMAIN quotes |-> cite(quotes[i], sources)])

\* results.retain(|r| r.relevance_score > min_rel)
retain_above(results, filters) ==
    IF filters # None /\ filters.v.min_relevance # None
    THEN SelectSeq(results, LAMBDA r :
             r.relevance_score > filters.v.min_relevance.v)
    ELSE results

\* results.retain(|r| r.relevance_score >= min_rel)
retain(results, filters) ==
    IF filters # None /\ filters.v.min_relevance # None
    THEN SelectSeq(results, LAMBDA r :
             r.relevance_score >= filters.v.min_relevance.v)
    ELSE results

\* the sort of a ranking that turns the list round
rank_reversed(results, ranking) ==
    IF ranking = "Relevance"
    THEN [i \in DOMAIN results |-> results[Len(results) + 1 - i]]
    ELSE results

\* match input.ranking: the stable sort by score, larger first, for
\* Relevance; nothing for Recency and Popularity
rank(results, ranking) ==
    IF ranking = "Relevance"
    THEN LET sorted == sort_by_desc([i \in DOMAIN results |->
                           <<results[i], results[i].relevance_score>>])
         IN [i \in DOMAIN sorted |-> sorted[i][1]]
    ELSE results

\* results.truncate(max)
truncate(results, filters) ==
    IF filters # None /\ filters.v.max_results # None
    THEN take(results, filters.v.max_results.v)
    ELSE results

\* query.rs: execute_v2 from the reply of the Generation Service on
search_result(text, input) ==
    LET sources == filtered_sources(input)
    IN [answer |-> extract_answer(text),
        results |-> truncate(rank(retain(extract_results(text, sources),
                                         input.filters),
                                  input.ranking),
                             input.filters),
        citations |-> IF input.include_citations
                      THEN extract_citations(text, sources) ELSE <<>>]

\* the sources tried
SourceVals ==
    {[id |-> Chars("D1"), title |-> Chars("Doc A"),
      content |-> Chars("The quick brown fox jumps over the lazy dog")],
     [id |-> Chars("d2"), title |-> Chars("Notes"),
      content |-> Chars("the QUICK brown fox jumps high; other text")],
     [id |-> Chars("x9"), title |-> Chars("Guide"),
      content |-> Chars("Pack my box with five dozen liquor jugs")]}

RECURSIVE SourceLists(_)
SourceLists(n) ==
    IF n = 0 THEN {<<>>}
    ELSE LET shorter == SourceLists(n - 1)
         IN shorter \cup {Append(ss, src) : ss \in shorter, src \in SourceVals}

\* the reply texts tried
SearchTexts ==
    {Chars("Answer: see Doc A\n\nD1 says \"The quick brown fox jumps\" and notes"),
     Chars("answer: none: really\nsee d1 and NOTES"),
     Chars("\"the quick brown fox jumps\" is in doc a and in Guide"),
     Chars("\"short quote\" then \"Pack my box with five dozen\" x9"),
     Chars("nothing relevant"),
     Chars("\"this long quote is in no source at all\" Notes D1"),
     Chars(""),
     Chars("first\nsecond\nthird\nfourth Guide d2"),
     Chars("\"brown fox jumps over\" D1 X9"),
     Chars("\"rown fox jumps over\" D1 D2")}

\* the filters tried; min_relevance in hundredths
FilterVals ==
    {None}
    \cup {Some([source_ids |-> ids, min_relevance |-> min, max_results |-> max]) :
              ids \in {None, Some(<<Chars("D1")>>)},
              min \in {None, Some(50), Some(DEFAULT_SCORE), Some(90)},
              max \in {None, Some(0), Some(1)}}

\* the decoded inputs whose filter leaves a source, so that execute_v2
\* reaches the Generation Service
SearchInputs ==
    {input \in [sources : SourceLists(MaxSources) \ {<<>>},
                filters : FilterVals,
                ranking : {"Relevance", "Recency", "Popularity"},
                include_citations : BOOLEAN] :
        filtered_sources(input) # <<>>}

SearchInit ==
    /\ ServerIdle
    /\ pure \in {[f |-> "search_result", arg |-> [text |-> t, input |-> input],
                   ret |-> None] :
                     t \in SearchTexts, input \in SearchInputs}

\* execute_v2: the SearchResult built from response.text
BuildSearchResult ==
    /\ pure.f = "search_result"
    /\ pure.ret = None
    /\ pure' = [pure EXCEPT
                   !.ret = Some(search_result(pure.arg.text, pure.arg.input))]
    /\ UNCHANGED server_vars

SearchNext == BuildSearchResult

SpecSearch == SearchInit /\ [][SearchNext]_vars

\* ------------------------------------------------------------------------
\* Field and list extraction (analyze.rs, extract_field and extract_list)
\* ------------------------------------------------------------------------
\* lines in a reply text
MaxFieldLines == 2

\* the character U+2022, the third bullet marker
BULLET == "bullet"

\* analyze.rs: extract_field
extract_field(text, field) ==
    LET hits == SelectSeq(lines(text), LAMBDA l :
                    contains(to_lowercase(l), field))
    IN IF hits = <<>> THEN None
       ELSE Some(trim(unwrap_or(split_colon_nth_1(hits[1]), <<>>)))

\* str::trim_start_matches(ch)
RECURSIVE trim_start_matches(_, _)
trim_start_matches(c, ch) ==
    IF c # <<>> /\ Head(c) = ch THEN trim_start_matches(Tail(c), ch) ELSE c

\* analyze.rs: extract_list
extract_list(text, keyword) ==
    LET hits == SelectSeq(lines(text), LAMBDA l :
                    /\ contains(to_lowercase(l), keyword)
                    /\ \/ starts_with(l, <<"-">>)
                       \/ starts_with(l, <<"*">>)
                       \/ contains(l, <<BULLET>>))
    IN [i \in DOMAIN hits |->
           trim(trim_start_matches(
                    trim_start_matches(
                        trim_start_matches(hits[i], "-"), "*"), BULLET))]

\* the lines a reply text is made of
FieldLineVals ==
    {Chars("Tone: formal"), Chars("tone: calm at 10:30"),
     Chars("Overall TONE is formal"), Chars(" Tone :  warm  "),
     Chars("Tone:"), Chars("Sentiment: positive"),
     Chars("- Theme one"), Chars("* theme: two"), Chars("Themes:"),
     Chars("  - theme three"), <<BULLET>> \o Chars(" Theme four"),
     Chars("theme ") \o <<BULLET>> \o Chars(" five"), Chars("- other")}

RECURSIVE FieldLineSeqs(_)
FieldLineSeqs(n) ==
    IF n = 0 THEN {<<>>}
    ELSE LET shorter == FieldLineSeqs(n - 1)
         IN shorter \cup {Append(ls, l) : ls \in shorter, l \in FieldLineVals}

\* the reply texts tried
FieldTexts == {Join(ls) : ls \in FieldLineSeqs(MaxFieldLines)}

FieldsInit ==
    /\ ServerIdle
    /\ pure \in
          {[f |-> "extract_field",
            arg |-> [text |-> t, field |-> Chars("tone"),
                     default |-> Chars("neutral")],
            ret |-> None] : t \in FieldTexts}
          \cup {[f |-> "extract_list",
                  arg |-> [text |-> t, keyword |-> Chars("theme")],
                  ret |-> None] : t \in FieldTexts}

\* analyze_text: extract_field(&response.text, "tone")
\*                   .unwrap_or_else(|| "neutral".to_string())
ExtractField ==
    /\ pure.f = "extract_field"
    /\ pure.ret = None
    /\ pure' = [pure EXCEPT
                   !.ret = Some(unwrap_or(extract_field(pure.arg.text,
                                                        pure.arg.field),
                                          pure.arg.default))]
    /\ UNCHANGED server_vars

\* analyze_text: extract_list(&response.text, "theme")
ExtractList ==
    /\ pure.f = "extract_list"
    /\ pure.ret = None
    /\ pure' = [pure EXCEPT
                   !.ret = Some(extract_list(pure.arg.text, pure.arg.keyword))]
    /\ UNCHANGED server_vars

FieldsNext == ExtractField \/ ExtractList

SpecFields == FieldsInit /\ [][FieldsNext]_vars

\* ------------------------------------------------------------------------
\* Vocabulary of the properties
\* ------------------------------------------------------------------------
\* the line decodes as a Request Envelope: a JSON object with a version
\* tag, an identifier and a method
IsEnvelope(l) ==
    /\ l.kind = "json"
    /\ l.doc.t = "obj"
    /\ IsString(l.doc.o.jsonrpc)
    /\ l.doc.o.id # Absent
    /\ IsString(l.doc.o.method)

MethodOf(l) == l.doc.o.method.s
IdOf(l) == l.doc.o.id

\* a tools/call envelope whose params carry a string name
IsNamedCall(l) ==
    /\ IsEnvelope(l)
    /\ MethodOf(l) = "tools/call"
    /\ l.doc.o.params.t = "obj"
    /\ IsString(l.doc.o.params.o.name)

NameOf(l) == l.doc.o.params.o.name.s
ArgumentsOf(l) == l.doc.o.params.o.arguments

Registered == {ToolNames[i] : i \in DOMAIN ToolNames}

\* the response of this iteration is an error with this code
IsError(code) ==
    /\ response # None
    /\ response.v.result = None
    /\ response.v.error # None
    /\ response.v.error.v.code = code

AllFlushed(n) ==
    \A k \in 1..n : stdout[k].terminated /\ stdout[k].flushed

\* ------------------------------------------------------------------------
\* C1: one newline-terminated response per non-empty line and none for a
\* blank line; the k-th response answers the k-th non-empty line; a
\* response is written and flushed before the next line is read.
\* ------------------------------------------------------------------------
C1_OneResponsePerLine ==
    /\ \A k \in DOMAIN stdout : stdout[k].answers = k
    /\ pc \in {"read", "done"} =>
           /\ Len(stdout) = nreq
           /\ AllFlushed(nreq)
    /\ pc \in {"handle", "await", "write_body"} =>
           /\ line # None
           /\ Len(stdout) = nreq - 1
           /\ AllFlushed(nreq - 1)
    /\ pc \in {"write_newline", "flush"} =>
           /\ Len(stdout) = nreq
           /\ AllFlushed(nreq - 1)
           /\ pc = "flush" => stdout[nreq].terminated

C1_Witness ==
    /\ pc = "read"
    /\ nread = 3
    /\ nreq = 2
    /\ Len(stdout) = 2
    /\ stdout[2].answers = 2

\* ------------------------------------------------------------------------
\* C2: a line that does not decode as a Request Envelope is answered with
\* error -32700 and a null identifier, and neither a method handler nor a
\* tool executor runs for it.
\* ------------------------------------------------------------------------
C2_ParseError ==
    (line # None /\ ~IsEnvelope(line.v) /\ pc # "handle") =>
        /\ IsError(PARSE_ERROR)
        /\ response.v.id = JNull
        /\ ran = NoneRan
        /\ calls = <<>>
        /\ pending = None

C2_Witness ==
    /\ pc = "flush"
    /\ line # None
    /\ line.v.kind = "json"
    /\ line.v.doc.t = "obj"
    /\ line.v.doc.o.id = JNum(7)
    /\ line.v.doc.o.method = Absent
    /\ IsError(PARSE_ERROR)
    /\ response.v.id = JNull

\* ------------------------------------------------------------------------
\* C3: an unrecognised method, and a tools/call for a name that is not a
\* registered tool, are answered with error -32601 carrying the request's
\* identifier, without a Generation Service call.
\* ------------------------------------------------------------------------
UnknownMethodOrTool(l) ==
    \/ /\ IsEnvelope(l)
       /\ MethodOf(l) \notin {"initialize", "tools/list", "tools/call"}
    \/ /\ IsNamedCall(l)
       /\ NameOf(l) \notin Registered

C3_NotFound ==
    (line # None /\ UnknownMethodOrTool(line.v) /\ pc # "handle") =>
        /\ IsError(METHOD_NOT_FOUND)
        /\ response.v.id = IdOf(line.v)
        /\ calls = <<>>
        /\ pending = None

C3_Witness ==
    /\ pc = "write_body"
    /\ line # None
    /\ IsNamedCall(line.v)
    /\ NameOf(line.v) = "gemini-nothing"
    /\ IdOf(line.v) = JStr("req-1")
    /\ IsError(METHOD_NOT_FOUND)

\* ------------------------------------------------------------------------
\* C4: a tools/call without a string name is answered with error -32602
\* and the request's identifier; a tools/call with a name and no arguments
\* is handled exactly like the same request with arguments {}.
\* ------------------------------------------------------------------------
\* the same line with the arguments set to the empty object
WithEmptyArguments(l) ==
    [l EXCEPT !.doc.o.params.o.arguments = JObj(NoArgs)]

\* what handling a line leads to before any Generation Service outcome:
\* the response, or the call the executor issues
FirstOutcome(l) ==
    LET h == run_match(l)
    IN IF h.st = "done" THEN [response |-> Some(h.response), calls |-> <<>>]
       ELSE LET a == Advance(h.steps, None, None)
            IN CASE a.st = "call" -> [response |-> None, calls |-> <<a.call>>]
                 [] a.st = "err" ->
                      [response |-> Some(call_tool_result(h.id, h.tool, a.e)),
                       calls |-> <<>>]
                 [] a.st = "ok" ->
                      [response |-> Some(call_tool_result(h.id, h.tool, Ok(a.v))),
                       calls |-> <<>>]

C4_NameAndArguments ==
    /\ (/\ line # None
        /\ IsEnvelope(line.v)
        /\ MethodOf(line.v) = "tools/call"
        /\ ~IsNamedCall(line.v)
        /\ pc # "handle") =>
           /\ IsError(INVALID_PARAMS)
           /\ response.v.id = IdOf(line.v)
    /\ (/\ line # None
        /\ IsNamedCall(line.v)
        /\ ArgumentsOf(line.v) = Absent
        /\ pc \in {"await", "write_body"}) =>
           /\ calls = FirstOutcome(WithEmptyArguments(line.v)).calls
           /\ calls = <<>> =>
                  response = FirstOutcome(WithEmptyArguments(line.v)).response

C4_Witness ==
    /\ pc = "write_body"
    /\ line # None
    /\ IsNamedCall(line.v)
    /\ NameOf(line.v) = "gemini-summarize"
    /\ ArgumentsOf(line.v) = Absent
    /\ IsError(INTERNAL_ERROR)
    /\ response.v.error.v.message = "missing field"

\* ------------------------------------------------------------------------
\* C5: a failure of a registered tool's executor (argument decoding,
\* validation, Generation Service) does not leave the dispatcher: the
\* response is error -32603 with the failure's message and the request's
\* identifier, and the loop goes on to write it.
\* ------------------------------------------------------------------------
C5_ExecutorFailure ==
    failure # None =>
        /\ IsError(INTERNAL_ERROR)
        /\ response.v.error.v.message = failure.v.msg
        /\ response.v.id = IdOf(line.v)
        /\ NameOf(line.v) \in Registered
        /\ pc \in {"write_body", "write_newline", "flush", "failed"}
        /\ pc = "failed" => stop = "write_error"

C5_Witness ==
    /\ pc = "flush"
    /\ failure # None
    /\ failure.v.kind = "backend"
    /\ NameOf(line.v) = "gemini-analyze-v2"
    /\ IsError(INTERNAL_ERROR)

\* ------------------------------------------------------------------------
\* C6: the loop ends cleanly at end-of-stream and otherwise only on a
\* transport failure (read error, write error); no malformed line, unknown
\* method or tool, missing parameter, validation error or backend error
\* ends it, so every non-empty line delivered is answered.
\* ------------------------------------------------------------------------
C6_OnlyTransportStops ==
    /\ pc \in {"done", "failed"} <=> stop # "none"
    /\ pc = "done" => stop \in {"eof", "read_error"}
    /\ pc = "failed" => stop = "write_error"
    /\ stop \in {"eof", "read_error"} => Len(stdout) = nreq
    /\ (stop = "none" /\ line # None /\ pc # "handle") =>
           pending # None \/ response # None

C6_Witness ==
    /\ pc = "done"
    /\ stop = "eof"
    /\ Len(stdout) = 3
    /\ stdout[1].error
    /\ stdout[2].error
    /\ stdout[3].flushed

\* ------------------------------------------------------------------------
\* C7: every response envelope emitted holds exactly one of a result
\* payload and an error object.
\* ------------------------------------------------------------------------
C7_ResultXorError ==
    response_json # None =>
        Cardinality(response_json.v.keys \cap {"result", "error"}) = 1

C7_Witness ==
    /\ pc = "write_newline"
    /\ nreq = 2
    /\ stdout[1].error
    /\ response_json # None
    /\ "result" \in response_json.v.keys
    /\ "error" \notin response_json.v.keys

\* ------------------------------------------------------------------------
\* C8: the response to a request that decoded as an envelope carries the
\* request's identifier unchanged, whatever its value, in a result and in
\* an error alike.
\* ------------------------------------------------------------------------
C8_IdEchoed ==
    (line # None /\ IsEnvelope(line.v) /\ response # None) =>
        /\ response.v.id = IdOf(line.v)
        /\ response_json.v.id = IdOf(line.v)

C8_Witness ==
    /\ pc = "write_body"
    /\ line # None
    /\ IsEnvelope(line.v)
    /\ IdOf(line.v) = JArr(<<JNum(1), JStr("x")>>)
    /\ response # None
    /\ response.v.error # None
    /\ response.v.id = JArr(<<JNum(1), JStr("x")>>)

\* ------------------------------------------------------------------------
\* C9: for each of the nine tools, a tools/call whose required content is
\* empty or blank, or whose idea count is outside [1,50], is answered with
\* an error and never reaches the Generation Service.
\* ------------------------------------------------------------------------
RequiredContentField(tool) ==
    CASE tool \in {"gemini-query", "gemini-brainstorm", "gemini-brainstorm-v2"} ->
           "prompt"
      [] tool = "gemini-analyze-code" -> "code"
      [] tool = "gemini-analyze-text" -> "text"
      [] tool = "gemini-search-v2" -> "query"
      [] OTHER -> "content"

\* the call's required content is blank, or its idea count is out of range
BadInput(l) ==
    /\ IsNamedCall(l)
    /\ NameOf(l) \in Registered
    /\ ArgumentsOf(l) # Absent
    /\ ArgumentsOf(l).t = "obj"
    /\ LET o == ArgumentsOf(l).o
           content == o[RequiredContentField(NameOf(l))]
       IN \/ content.t = "text" /\ content.pad = 0
             /\ \A i \in DOMAIN content.c : IsWhite(content.c[i])
          \/ /\ NameOf(l) \in {"gemini-brainstorm", "gemini-brainstorm-v2"}
             /\ o["num_ideas"].t = "num"
             /\ o["num_ideas"].n \notin 1..50

C9_AllToolsValidate ==
    (line # None /\ BadInput(line.v) /\ pc # "handle") =>
        /\ calls = <<>>
        /\ pending = None
        /\ response # None
        /\ response.v.error # None

\* ------------------------------------------------------------------------
\* C10: when a tool executor reports a validation failure for a request,
\* no Generation Service call has been issued for that request.
\* ------------------------------------------------------------------------
C10_ValidationBeforeCall ==
    (failure # None /\ failure.v.kind = "validation") =>
        /\ calls = <<>>
        /\ pending = None

C10_Witness ==
    /\ pc = "flush"
    /\ failure # None
    /\ failure.v.kind = "validation"
    /\ failure.v.msg = "num_ideas must be between 1 and 50"
    /\ NameOf(line.v) = "gemini-brainstorm-v2"
    /\ IsError(INTERNAL_ERROR)

\* ------------------------------------------------------------------------
\* C11: for every tool that accepts a model preference, a call that gives
\* no model invokes the Generation Service with the Pro variant, and the
\* Flash variant is used only when the caller asks for it.
\* ------------------------------------------------------------------------
\* the arguments object of a named call (no fields when it is not one)
ArgsObjOf(l) ==
    IF ArgumentsOf(l) # Absent /\ ArgumentsOf(l).t = "obj"
    THEN ArgumentsOf(l).o ELSE NoArgs

C11_DefaultIsPro ==
    (line # None /\ IsNamedCall(line.v) /\ calls # <<>>) =>
        LET m == ArgsObjOf(line.v)["model"]
        IN /\ m \in {Absent, JNull} => calls[1].model = "Pro"
           /\ calls[1].model = "Flash" => m = JText(FLASH, 0)

\* ------------------------------------------------------------------------
\* C12: every successful tools/call, for every registered tool and every
\* path through its executor, returns usage metadata: the model used and
\* the prompt, response and total token counts of the Generation Result of
\* that call.
\* ------------------------------------------------------------------------
\* the metadata carried by a tool's value, through its conversions
RECURSIVE MetadataOf(_)
MetadataOf(v) ==
    IF "metadata" \in DOMAIN v THEN Some(v.metadata)
    ELSE IF "of" \in DOMAIN v THEN MetadataOf(v.of)
    ELSE IF "to_string_pretty" \in DOMAIN v THEN MetadataOf(v.to_string_pretty)
    ELSE None

C12_UsageMetadata ==
    (response # None /\ response.v.result # None /\ ran.executor # "none") =>
        LET md == MetadataOf(response.v.result.v.content[1].text)
        IN /\ md # None
           /\ reply # None
           /\ reply.v.ok
           /\ md.v.model_used = GeminiModel_as_str(calls[1].model)
           /\ md.v.prompt_tokens = reply.v.v.usage.prompt_token_count
           /\ md.v.response_tokens = reply.v.v.usage.candidates_token_count
           /\ md.v.total_tokens = reply.v.v.usage.total_token_count

\* ------------------------------------------------------------------------
\* C13: for every tool that accepts generation parameters, each parameter
\* the caller supplies (temperature, max output length, top-p, top-k) is
\* the value passed to the Generation Service, and an omitted one takes the
\* tool's default (brainstorm 0.9/2048, search 0.3/2048, summarize 0.4 and
\* 256/1024/2048 by length).
\* ------------------------------------------------------------------------
ParamTools ==
    {"gemini-query", "gemini-summarize", "gemini-brainstorm",
     "gemini-search-v2", "gemini-analyze-v2", "gemini-summarize-v2",
     "gemini-brainstorm-v2"}

\* the value the caller wrote for a generation parameter, or Absent
Supplied(l, f) ==
    LET o == ArgsObjOf(l)
        v == IF NameOf(l) = "gemini-query"
             THEN (IF f \in {"temperature", "max_output_tokens"}
                   THEN o[f] ELSE Absent)
             ELSE IF o["params"] # Absent /\ o["params"].t = "obj"
                  THEN o["params"].o[IF f = "max_output_tokens"
                                     THEN "max_tokens" ELSE f]
                  ELSE Absent
    IN IF v = JNull THEN Absent ELSE v

\* the tool's own default for a generation parameter, None when it has none
ToolDefault(l, f) ==
    LET tool == NameOf(l)
        length == ArgsObjOf(l)["length"]
    IN CASE tool \in {"gemini-brainstorm", "gemini-brainstorm-v2"} ->
              IF f = "temperature" THEN Some(9)
              ELSE IF f = "max_output_tokens" THEN Some(2048) ELSE None
         [] tool = "gemini-search-v2" ->
              IF f = "temperature" THEN Some(3)
              ELSE IF f = "max_output_tokens" THEN Some(2048) ELSE None
         [] tool \in {"gemini-summarize", "gemini-summarize-v2"} ->
              IF f = "temperature" THEN Some(4)
              ELSE IF f = "max_output_tokens"
                   THEN Some(CASE length = JStr("brief") -> 256
                               [] length = JStr("detailed") -> 2048
                               [] OTHER -> 1024)
              ELSE None
         [] OTHER -> None

C13_GenerationParams ==
    (/\ line # None
     /\ IsNamedCall(line.v)
     /\ NameOf(line.v) \in ParamTools
     /\ calls # <<>>) =>
        \A f \in {"temperature", "max_output_tokens", "top_p", "top_k"} :
            LET given == Supplied(line.v, f)
                dflt == ToolDefault(line.v, f)
                config == calls[1].config
            IN /\ given # Absent =>
                      config # None /\ config.v[f] = Some(given.n)
               /\ (given = Absent /\ dflt # None) =>
                      config # None /\ config.v[f] = dflt

\* ------------------------------------------------------------------------
\* C14: for every registered tool, an arguments object that uses only the
\* fields its input schema declares, with the values the schema allows, is
\* decoded by the tool's executor without a decoding failure.
\* ------------------------------------------------------------------------
\* the value is one the property's declaration allows
ValueConforms(d, v) ==
    CASE d.type = "string" ->
           IsString(v) /\ (d.enum # {} => v \in d.enum)
      [] d.type \in {"number", "integer"} -> v.t = "num"
      [] d.type = "object" -> v.t = "obj"
      [] d.type = "array" -> v.t = "arr"
      [] d.type = "oneOf" ->
           /\ v.t = "obj"
           /\ \E b \in AnalyzerTypeOneOf :
                /\ v.o.type = JStr(b.const)
                /\ v.o.params # Absent =>
                       /\ v.o.params.t = "obj"
                       /\ \A f \in b.required : v.o.params.o[f] # Absent
      [] OTHER -> FALSE

\* the arguments object satisfies the schema
Conforms(schema, o) ==
    /\ \A f \in ArgFields :
           o[f] # Absent =>
               /\ f \in DOMAIN schema.properties
               /\ ValueConforms(schema.properties[f], o[f])
    /\ \A f \in schema.required : o[f] # Absent

C14_SchemaLockStep ==
    (/\ line # None
     /\ IsNamedCall(line.v)
     /\ NameOf(line.v) \in Registered
     /\ ArgumentsOf(line.v) # Absent
     /\ ArgumentsOf(line.v).t = "obj"
     /\ Conforms(inputSchema(NameOf(line.v)), ArgumentsOf(line.v).o)
     /\ failure # None) =>
        failure.v.kind # "decode"

\* ------------------------------------------------------------------------
\* C15: tools/list returns the same ordered catalog of pairwise distinct
\* tool names on every call, whatever requests preceded it, and a
\* tools/call name reaches an executor exactly when it is, case-sensitively,
\* one of the names of that catalog.
\* ------------------------------------------------------------------------
\* the names of the descriptors of a tools/list result, in order
NamesOf(result) == [i \in DOMAIN result.tools |-> result.tools[i].name]

C15_FixedCatalog ==
    /\ (/\ line # None
        /\ IsEnvelope(line.v)
        /\ MethodOf(line.v) = "tools/list"
        /\ response # None) =>
           /\ response.v.result # None
           /\ LET names == NamesOf(response.v.result.v)
              IN /\ names = ToolNames
                 /\ \A i, j \in DOMAIN names : i # j => names[i] # names[j]
    /\ (line # None /\ IsNamedCall(line.v) /\ pc # "handle") =>
           LET names == NamesOf(list_tools(JNull).result.v)
           IN /\ ran.executor # "none" <=>
                     \E i \in DOMAIN names : names[i] = NameOf(line.v)
              /\ ran.executor # "none" => ran.executor = NameOf(line.v)

C15_Witness ==
    /\ pc = "write_body"
    /\ Len(stdout) = 2
    /\ stdout[1].error
    /\ ~stdout[2].error
    /\ line # None
    /\ IsEnvelope(line.v)
    /\ MethodOf(line.v) = "tools/list"
    /\ response # None
    /\ Len(response.v.result.v.tools) = 9

\* ------------------------------------------------------------------------
\* C16: idea parsing numbers the ideas 1, 2, 3, ... in the order their lines
\* appear, whatever numbers the lines carry; a numbered list of N lines,
\* N in 1..50, yields exactly N ideas with ids 1..N in order.
\* ------------------------------------------------------------------------
\* a line of a numbered list: a number, a dot, a space and a text
IsNumberedLine(l) ==
    LET d == LeadingIn(l, Digit)
    IN /\ d >= 1
       /\ Len(l) >= d + 3
       /\ l[d + 1] = "."
       /\ l[d + 2] = " "
       /\ l[d + 3] \notin Space

C16_SequentialIds ==
    (pure.f = "parse_ideas" /\ pure.ret # None) =>
        LET ideas == pure.ret.v
            ls == lines(pure.arg)
        IN /\ \A k \in DOMAIN ideas : ideas[k].id = k
           /\ (/\ Len(ls) \in 1..50
               /\ \A i \in DOMAIN ls : IsNumberedLine(ls[i])) =>
                  /\ Len(ideas) = Len(ls)
                  /\ \A k \in DOMAIN ideas :
                         ideas[k].text =
                             trim(Drop(ls[k], LeadingIn(ls[k], Digit) + 2))

C16_Witness ==
    /\ pure.f = "parse_ideas"
    /\ pure.ret # None
    /\ Len(lines(pure.arg)) = 50
    /\ Len(pure.ret.v) = 50
    /\ pure.ret.v[50].id = 50

\* ------------------------------------------------------------------------
\* C17: a non-blank line after an idea line that does not itself match the
\* idea-line pattern creates no idea and is appended, trimmed, after one
\* space to the text of the most recent idea; such a line before the first
\* idea is discarded.
\* ------------------------------------------------------------------------
\* the positions of the lines that match the idea-line pattern
IdeaLinesOf(ls) ==
    SelectSeq([i \in DOMAIN ls |-> i],
              LAMBDA i : line_regex_captures(ls[i]) # None)

\* the non-blank lines a..b, each trimmed and preceded by one space
RECURSIVE Continuations(_, _, _)
Continuations(ls, a, b) ==
    IF a > b THEN <<>>
    ELSE (IF trim(ls[a]) = <<>> THEN <<>> ELSE <<" ">> \o trim(ls[a]))
         \o Continuations(ls, a + 1, b)

CeilThreeTenths(n) == (3 * n + 9) \div 10

\* the number of distinct ideas a token occurs in
Occurrences(ideas, word) ==
    Cardinality({i \in DOMAIN ideas : word \in keywords(ideas[i])})

\* C18: over n ideas (n in 1..50), a token that is not a stop word and
\* occurs in k distinct ideas is returned as a theme with frequency k when
\* k >= ceil(0.3 * n), and is not returned when k < ceil(0.3 * n).
C18_ConsensusThreshold ==
    (/\ pure # None
     /\ pure.f = "extract_consensus_themes"
     /\ pure.ret # None
     /\ Len(pure.arg) \in 1..MAX_IDEAS)
    => \A word \in keyword_keys(pure.arg) \ THEME_STOP_WORDS :
          LET k == Occurrences(pure.arg, word)
              themes == pure.ret.v
          IN IF k >= CeilThreeTenths(Len(pure.arg))
             THEN \E i \in DOMAIN themes :
                     themes[i].theme = word /\ themes[i].frequency = k
             ELSE \A i \in DOMAIN themes : themes[i].theme # word

\* ------------------------------------------------------------------------
\* C19
\* ------------------------------------------------------------------------
\* the words either extraction treats as stop words
StopWords == THEME_STOP_WORDS \cup TOPIC_STOP_WORDS

\* C19: no stop word of either extraction is returned as a consensus theme
\* or as a key topic, however often it occurs.
C19_StopWordsExcluded ==
    (pure # None /\ pure.ret # None)
    => /\ pure.f = "extract_consensus_themes"
          => \A i \in DOMAIN pure.ret.v : pure.ret.v[i].theme \notin StopWords
       /\ pure.f = "extract_key_topics"
          => \A i \in DOMAIN pure.ret.v : pure.ret.v[i] \notin StopWords

\* ------------------------------------------------------------------------
\* C20
\* ------------------------------------------------------------------------
\* the number the first occurrence of <number>/10 or of score, ":" or
\* whitespace, <number> writes, the word score in any case; None without one
FirstScore(text) ==
    LET cap == score_regex_captures(to_lowercase(text))
    IN IF cap = None THEN None ELSE Some(parse_f32(cap.v))

\* C20: score extraction returns the number of the first occurrence of
\* <number>/10 or of score (in any case) followed by ":" or whitespace and a
\* number, and the caller's default when the text has no such occurrence.
C20_ScoreExtraction ==
    (pure # None /\ pure.f = "extract_score" /\ pure.ret # None)
    => pure.ret.v = unwrap_or(FirstScore(pure.arg.text), pure.arg.default)

\* ------------------------------------------------------------------------
\* C21
\* ------------------------------------------------------------------------
\* a search result has been built from a reply
SearchDone ==
    pure # None /\ pure.f = "search_result" /\ pure.ret # None

\* the candidate results: those extracted from the reply, before the filters
Candidates == extract_results(pure.arg.text, filtered_sources(pure.arg.input))

\* the candidates scoring at least min_relevance (all without one)
Qualifying ==
    LET filters == pure.arg.input.filters
    IN SelectSeq(Candidates, LAMBDA r :
           \/ filters = None
           \/ filters.v.min_relevance = None
           \/ r.relevance_score >= filters.v.min_relevance.v)

\* max_results, or the number of qualifying candidates without one
Cap ==
    LET filters == pure.arg.input.filters
    IN IF filters # None /\ filters.v.max_results # None
          /\ filters.v.max_results.v < Len(Qualifying)
       THEN filters.v.max_results.v ELSE Len(Qualifying)

IsSpacedIdeaLine(l) ==
    LET s1 == LeadingIn(l, Space)
        d == LeadingIn(Drop(l, s1), Digit)
        r == Drop(l, s1 + d)
        afterdot == IF r # <<>> /\ Head(r) = "." THEN Tail(r) ELSE r
    IN d >= 1 /\ LeadingIn(afterdot, Space) >= 1 /\ Len(afterdot) >= 2

\* C22: a line starts a new idea if and only if it is optional whitespace,
\* digits, an optional ".", at least one whitespace character and text: the
\* ideas parsed from a text are as many as its lines of that form.
C22_IdeaLinePattern ==
    (pure # None /\ pure.f = "parse_ideas" /\ pure.ret # None) =>
        Len(pure.ret.v) =
            Len(SelectSeq(lines(pure.arg), LAMBDA l : IsSpacedIdeaLine(l)))

\* ------------------------------------------------------------------------
\* C23
\* ------------------------------------------------------------------------
\* consensus themes have been mined from a list of ideas
ThemesDone ==
    pure # None /\ pure.f = "extract_consensus_themes" /\ pure.ret # None

\* the ids of the ideas whose text holds the token
HoldersOf(ideas, word) ==
    {ideas[i].id : i \in {j \in DOMAIN ideas : word \in keywords(ideas[j])}}

\* the tokens that qualify as themes: no stop words, in at least the
\* ceiling of 0.3 * n ideas
QualifyingTokens(ideas) ==
    {word \in keyword_keys(ideas) \ THEME_STOP_WORDS :
        Occurrences(ideas, word) >= CeilThreeTenths(Len(ideas))}

\* C23: at most 10 themes are returned, in non-increasing order of
\* frequency; no returned theme occurs in fewer ideas than a qualifying
\* token that was left out; a theme's frequency is the number of its related
\* idea ids, which are the distinct ids of exactly the ideas holding it.
C23_TopThemes ==
    ThemesDone =>
        LET ideas == pure.arg
            themes == pure.ret.v
            returned == {themes[i].theme : i \in DOMAIN themes}
        IN /\ Len(themes) <= 10
           /\ \A i, j \in DOMAIN themes :
                  i < j => themes[i].frequency >= themes[j].frequency
           /\ \A word \in QualifyingTokens(ideas) \ returned :
                  \A i \in DOMAIN themes :
                      themes[i].frequency >= Occurrences(ideas, word)
           /\ \A i \in DOMAIN themes :
                  /\ themes[i].frequency = Len(themes[i].related_ideas)
                  /\ ElementsOf(themes[i].related_ideas) =
                         HoldersOf(ideas, themes[i].theme)
                  /\ Cardinality(HoldersOf(ideas, themes[i].theme)) =
                         Len(themes[i].related_ideas)

C23_Witness ==
    /\ ThemesDone
    /\ Cardinality(QualifyingTokens(pure.arg)) = 12
    /\ Len(pure.ret.v) = 10
    /\ pure.ret.v[1].frequency = 3
    /\ pure.ret.v[10].frequency = 1
    /\ Chars("alpha") \in {pure.ret.v[i].theme : i \in 1..3}

\* ------------------------------------------------------------------------
\* C24
\* ------------------------------------------------------------------------
\* the lines whose lowercase form holds the keyword
KeywordLines(text, keyword) ==
    SelectSeq(lines(text), LAMBDA l : contains(to_lowercase(l), keyword))

\* the whole text after the first ":" of the line, trimmed; None when the
\* line has no ":"
AfterFirstColon(l) ==
    IF Until(l, ":") = Len(l) THEN None
    ELSE Some(trim(Drop(l, Until(l, ":") + 1)))

\* C24: field extraction gives, trimmed, the whole text after the first ":"
\* of the first line whose lowercase form holds the keyword, later ":"
\* included, and the caller's default when no value is found.
C24_FieldExtraction ==
    (pure # None /\ pure.f = "extract_field" /\ pure.ret # None) =>
        LET hits == KeywordLines(pure.arg.text, pure.arg.field)
        IN pure.ret.v =
               IF hits = <<>> THEN pure.arg.default
               ELSE unwrap_or(AfterFirstColon(hits[1]), pure.arg.default)

\* ------------------------------------------------------------------------
\* C25
\* ------------------------------------------------------------------------
\* the line begins with one of the bullet markers
BeginsWithMarker(l) == l # <<>> /\ Head(l) \in {"-", "*", BULLET}

\* C25: list extraction gives, in text order, exactly the lines whose
\* lowercase form holds the keyword and that begin with a bullet marker,
\* without the marker and the whitespace around the rest; a line that holds
\* the keyword but does not begin with a marker is not returned.
C25_ListExtraction ==
    (pure # None /\ pure.f = "extract_list" /\ pure.ret # None) =>
        LET items == SelectSeq(KeywordLines(pure.arg.text, pure.arg.keyword),
                               LAMBDA l : BeginsWithMarker(l))
        IN pure.ret.v = [i \in DOMAIN items |-> trim(Tail(items[i]))]

\* ------------------------------------------------------------------------
\* C26
\* ------------------------------------------------------------------------
\* the title or the id of the source occurs in the text, in any case
MentionedInAnyCase(text, source) ==
    \/ contains(to_lowercase(text), to_lowercase(source.title))
    \/ contains(to_lowercase(text), to_lowercase(source.id))

\* C26: without filters, the results of a search are, in the order of the
\* candidate sources and one for each, exactly the sources whose title or id
\* occurs in the reply under case-insensitive comparison.
C26_ResultsBySourceMention ==
    (SearchDone /\ pure.arg.input.filters = None) =>
        LET named == SelectSeq(pure.arg.input.sources, LAMBDA source :
                         MentionedInAnyCase(pure.arg.text, source))
            out == pure.ret.v.results
        IN [i \in DOMAIN out |-> <<out[i].source_id, out[i].source_title>>]
           = [i \in DOMAIN named |-> <<named[i].id, named[i].title>>]

\* ------------------------------------------------------------------------
\* C27
\* ------------------------------------------------------------------------
\* the content of the source holds the quote, as written or in any case
HoldsQuote(source, quote) ==
    \/ contains(source.content, quote)
    \/ contains(to_lowercase(source.content), to_lowercase(quote))

\* the quote is a double-quoted span of the text
IsQuotedSpan(text, quote) ==
    /\ \A i \in DOMAIN quote : quote[i] # "\""
    /\ contains(text, <<"\"">> \o quote \o <<"\"">>)

\* a search result with its citations has been built
CitationsDone == SearchDone /\ pure.arg.input.include_citations

\* C27: every citation quotes a double-quoted span of the reply of at least
\* 20 characters and names the first candidate source whose content holds
\* the span (exactly or case-insensitively); there is one citation for each
\* such span held by some source, in the order of the spans, and none for a
\* span no source holds.
C27_CitationsFromSources ==
    CitationsDone =>
        LET citations == pure.ret.v.citations
            sources == filtered_sources(pure.arg.input)
            held == SelectSeq(quote_regex_captures_iter(pure.arg.text),
                        LAMBDA quote :
                            \E j \in DOMAIN sources : HoldsQuote(sources[j], quote))
        IN /\ [i \in DOMAIN citations |-> citations[i].quote] = held
           /\ \A i \in DOMAIN citations :
                  /\ Len(citations[i].quote) >= 20
                  /\ IsQuotedSpan(pure.arg.text, citations[i].quote)
                  /\ \E j \in DOMAIN sources :
                         /\ sources[j].id = citations[i].source_id
                         /\ sources[j].title = citations[i].source_title
                         /\ HoldsQuote(sources[j], citations[i].quote)
                         /\ \A k \in 1..(j - 1) :
                                ~HoldsQuote(sources[k], citations[i].quote)

C27_Witness ==
    /\ CitationsDone
    /\ Len(pure.arg.input.sources) = 2
    /\ pure.arg.input.sources[1].id = Chars("d2")
    /\ pure.arg.input.sources[2].id = Chars("D1")
    /\ pure.arg.input.filters = None
    /\ Len(pure.ret.v.citations) = 1
    /\ pure.ret.v.citations[1].source_id = Chars("d2")
    /\ pure.ret.v.citations[1].quote = Chars("The quick brown fox jumps")
    /\ ~contains(pure.arg.input.sources[1].content, pure.ret.v.citations[1].quote)

\* ------------------------------------------------------------------------
\* C28
\* ------------------------------------------------------------------------
\* C28: with ranking mode recency or popularity a search returns the same
\* result list as relevance mode does for the same sources, filters and
\* reply.
C28_RankingFallback ==
    (SearchDone /\ pure.arg.input.ranking \in {"Recency", "Popularity"}) =>
        pure.ret.v.results =
            search_result(pure.arg.text,
                          [pure.arg.input EXCEPT !.ranking = "Relevance"]).results

C28_Witness ==
    /\ SearchDone
    /\ pure.arg.input.ranking = "Popularity"
    /\ Len(pure.ret.v.results) = 2
    /\ pure.ret.v.results[1].source_id # pure.ret.v.results[2].source_id

\* ------------------------------------------------------------------------
\* C29
\* ------------------------------------------------------------------------
\* C29: consensus-theme mining and key-topic extraction are deterministic:
\* whatever the evaluation, the list returned for an input is the same one,
\* ties in frequency and the cut to the top 10 (top 5) included.
C29_Deterministic ==
    (pure # None /\ pure.ret # None) =>
        /\ pure.f = "extract_consensus_themes"
           => \A iter \in IterationOrders(keyword_keys(pure.arg)) :
                  extract_consensus_themes(pure.arg, iter) = pure.ret.v
        /\ pure.f = "extract_key_topics"
           => \A iter \in IterationOrders(ElementsOf(counted_words(pure.arg))) :
                  extract_key_topics(pure.arg, iter) = pure.ret.v

\* ------------------------------------------------------------------------
\* C30
\* ------------------------------------------------------------------------
\* the line is no call of a tool of the catalog: initialize, tools/list, an
\* unknown method, an unknown tool name, a missing name or missing params,
\* or no Request Envelope at all
NotACatalogCall(l) == ~(IsNamedCall(l) /\ NameOf(l) \in Registered)

\* C30: handling one request issues at most one Generation Service call,
\* and none for a line that is no call of a catalog tool or whose arguments
\* fail to decode; a call is outstanding only while the loop awaits it, so
\* no line is read before the call has returned or failed.
C30_OneCallPerRequest ==
    /\ Len(calls) <= 1
    /\ (line # None /\ pc # "handle" /\ NotACatalogCall(line.v)) => calls = <<>>
    /\ (failure # None /\ failure.v.kind = "decode") => calls = <<>>
    /\ pending # None <=> pc = "await"
    /\ pc = "await" => (Len(calls) = 1 /\ reply = None)
    /\ pc = "read" => (calls = <<>> /\ line = None)

C30_Witness ==
    /\ pc = "flush"
    /\ nread = 2
    /\ IsNamedCall(line.v)
    /\ NameOf(line.v) = "gemini-brainstorm"
    /\ Len(calls) = 1
    /\ reply # None
    /\ reply.v.ok
    /\ response.v.error = None

====
